---- MODULE Spec2Model ----
(***************************************************************************)
(* BackupCoordinationLocal (src/Backups/BackupCoordinationLocal.cpp): the  *)
(* single-host backup coordination session.  The model follows the member  *)
(* functions statement by statement: every thread has a program counter    *)
(* named after the source line it is about to execute, std::lock_guard is  *)
(* an explicit mutex, and the two std::map members are modelled by what    *)
(* emplace / try_emplace / at / find / lower_bound do to them.             *)
(*                                                                         *)
(* Strings are sequences of character codes (std::string compares bytes),  *)
(* so that prefix tests, find, substr, the map's ordering and fmt's digit  *)
(* formatting are computed and not assumed.                                *)
(*                                                                         *)
(* The member replicated_part_names is of a class declared outside this    *)
(* file; the session's calls into it (lines 19-60) are modelled from the   *)
(* code, what the class does with them from its contract.                  *)
(***************************************************************************)
EXTENDS Integers, Sequences, FiniteSets, TLC

VARIABLES
    file_names,              \* std::map<String, SizeAndChecksum>
    file_infos,              \* std::map<SizeAndChecksum, FileInfo>, as its set of nodes
    current_archive_suffix,  \* the counter behind getNextArchiveSuffix
    archive_suffixes,        \* Strings: every suffix handed out, in order
    mutex,                   \* the threads owning BackupCoordinationLocal::mutex
    pc,                      \* per thread: the source line it is about to execute
    file_info,               \* per thread: the FileInfo argument of the running call
    inserted_file_info,      \* per thread: addFileInfo's local of that name
    is_data_file_required,   \* per thread: addFileInfo's out-parameter
    new_archive_suffix,      \* per thread: getNextArchiveSuffix's local of that name
    history,                 \* the calls that have returned, in the order they returned
    replicated_part_names,   \* BackupCoordinationReplicatedPartNames
    args                     \* per thread: the other arguments of the running call

vars == <<file_names, file_infos, current_archive_suffix, archive_suffixes, mutex,
          pc, file_info, inserted_file_info, is_data_file_required,
          new_archive_suffix, history, replicated_part_names, args>>

(***************************************************************************)
(* Bounds of the model.                                                    *)
(***************************************************************************)
\* Number of threads calling into the session.
NumThreads == 2
\* Calls (returned or running) in one behaviour of Spec and SpecList.
MaxCalls == 3
\* getNextArchiveSuffix calls in one behaviour of SpecSuffix: past 999.
MaxSuffixCalls == 1001
Threads == 1..NumThreads

\* The empty string.
EmptyString == <<>>

\* File names registered in Spec: "a", "b".
Names == {<<97>>, <<98>>}

\* File names registered in SpecList:
\* "a", "a-", "a/b", "a/b/c", "a/b/d", "a/e", "b".
ListNames ==
    { <<97>>, <<97, 45>>, <<97, 47, 98>>, <<97, 47, 98, 47, 99>>,
      <<97, 47, 98, 47, 100>>, <<97, 47, 101>>, <<98>> }

\* Prefixes listFiles is asked for: "", "a", "a/", "a/b", "a/b/", "b", "c".
Prefixes ==
    { <<>>, <<97>>, <<97, 47>>, <<97, 47, 98>>, <<97, 47, 98, 47>>, <<98>>, <<99>> }

\* Terminators listFiles is asked for: "", "/", "-", "/b", "b".
Terminators == { <<>>, <<47>>, <<45>>, <<47, 98>>, <<98>> }

\* Sizes, base sizes and checksums of the records of Spec.
Sizes == {0, 1}
BaseSizes == {0, 1}
Checksums == {1, 2}

\* SizeAndChecksum = std::pair<UInt64, UInt128>
SizeAndChecksum(info) == <<info.size, info.checksum>>

\* A default-constructed FileInfo (FileInfo info;).
DefaultFileInfo ==
    [file_name |-> EmptyString, size |-> 0, checksum |-> 0, base_size |-> 0,
     archive_suffix |-> EmptyString]

\* std::nullopt and an engaged std::optional.
Nullopt == {}
Some(v) == {v}

(***************************************************************************)
(* std::string operations.                                                 *)
(***************************************************************************)
\* String::npos, the largest size_t (here the largest integer TLC represents).
NPos == 2147483647

Min(a, b) == IF a < b THEN a ELSE b

\* operator< of std::string: lexicographic on the bytes.
RECURSIVE StrLess(_, _)
StrLess(s, t) ==
    IF t = <<>> THEN FALSE
    ELSE IF s = <<>> THEN TRUE
    ELSE IF Head(s) # Head(t) THEN Head(s) < Head(t)
    ELSE StrLess(Tail(s), Tail(t))

\* name.starts_with(prefix)
starts_with(name, prefix) ==
    /\ Len(prefix) <= Len(name)
    /\ SubSeq(name, 1, Len(prefix)) = prefix

\* Mutant of find: the search starts at the beginning of the name.
find_FromStart(name, str, pos) ==
    LET hits == { p \in 0..(Len(name) - Len(str)) :
                    SubSeq(name, p + 1, p + Len(str)) = str }
    IN  IF hits = {} THEN NPos
        ELSE CHOOSE p \in hits : \A q \in hits : p <= q

\* name.find(str, pos): the first position >= pos (0-based) where str occurs.
find(name, str, pos) ==
    LET hits == { p \in pos..(Len(name) - Len(str)) :
                    SubSeq(name, p + 1, p + Len(str)) = str }
    IN  IF hits = {} THEN NPos
        ELSE CHOOSE p \in hits : \A q \in hits : p <= q

\* std::string_view{name}.substr(pos, count): count is clamped to the rest.
substr(name, pos, count) ==
    LET rlen == Min(count, Len(name) - pos)
    IN  SubSeq(name, pos + 1, pos + rlen)

(***************************************************************************)
(* std::map operations.                                                    *)
(***************************************************************************)
\* file_names.emplace(name, key): an existing element is left as it is.
NamesEmplace(names, name, key) ==
    IF name \in DOMAIN names
    THEN names
    ELSE [n \in DOMAIN names \cup {name} |->
            IF n = name THEN key ELSE names[n]]

\* file_infos.find(key) != end()
Contains(infos, key) == \E node \in infos : node.first = key

\* file_infos.at(key), for a key the map contains.
At(infos, key) == (CHOOSE node \in infos : node.first = key).second

\* Mutant of TryEmplaceInserts: an insertion that does not look the key up.
TryEmplaceInserts_Always(infos, key) == TRUE

\* The .second of file_infos.try_emplace(key, info): whether it inserts.
TryEmplaceInserts(infos, key) == ~Contains(infos, key)

\* The node insertion of file_infos.try_emplace(key, info).
InsertNode(infos, key, info) == infos \cup {[first |-> key, second |-> info]}

\* The keys of file_names in the order the map iterates them.
RECURSIVE SortedNames(_)
SortedNames(S) ==
    IF S = {} THEN <<>>
    ELSE LET m == CHOOSE x \in S : \A y \in S \ {x} : StrLess(x, y)
         IN  <<m>> \o SortedNames(S \ {m})

(***************************************************************************)
(* The mutex.                                                              *)
(***************************************************************************)
\* The mutex is the set of threads that own it: empty when it is free.
Unlocked == {}

\* Mutant of LockGuard: the guard does not wait for the mutex to be free.
LockGuard_NoWait(t) == mutex' = mutex \cup {t}

\* std::lock_guard lock{mutex}: blocks until the mutex is free, then owns it.
LockGuard(t) ==
    /\ mutex = Unlocked
    /\ mutex' = {t}

\* ~lock_guard at the end of the scope (also when an exception unwinds it).
UnlockGuard(t) ==
    /\ t \in mutex
    /\ mutex' = mutex \ {t}

\* The arguments of a call that has none but a FileInfo.
NoArgs == [host_id |-> EmptyString]

\* A BackupCoordinationReplicatedPartNames nothing was registered with.
EmptyTracker ==
    [state |-> "Open", claims |-> <<>>, data_paths |-> <<>>, owners |-> {}]

Init ==
    /\ file_names = <<>>
    /\ file_infos = {}
    /\ current_archive_suffix = 0
    /\ archive_suffixes = <<>>
    /\ mutex = Unlocked
    /\ pc = [t \in Threads |-> "idle"]
    /\ file_info = [t \in Threads |-> DefaultFileInfo]
    /\ inserted_file_info = [t \in Threads |-> FALSE]
    /\ is_data_file_required = [t \in Threads |-> FALSE]
    /\ new_archive_suffix = [t \in Threads |-> EmptyString]
    /\ history = <<>>
    /\ replicated_part_names = EmptyTracker
    /\ args = [t \in Threads |-> NoArgs]

\* Calls that are running.
Running == { t \in Threads : pc[t] # "idle" }

registry == <<file_names, file_infos>>
allocator == <<current_archive_suffix, archive_suffixes>>
locals == <<inserted_file_info, is_data_file_required, new_archive_suffix>>

(***************************************************************************)
(* addFileInfo, lines 63-74.                                               *)
(***************************************************************************)
\* A thread calls addFileInfo(info, is_data_file_required).
addFileInfo_call(t, info) ==
    /\ pc[t] = "idle"
    /\ pc' = [pc EXCEPT ![t] = "add_65"]
    /\ file_info' = [file_info EXCEPT ![t] = info]
    /\ UNCHANGED <<registry, allocator, mutex, locals, history, replicated_part_names,
                   args>>

\* line 65
addFileInfo_65(t) ==
    /\ pc[t] = "add_65"
    /\ LockGuard(t)
    /\ pc' = [pc EXCEPT ![t] = "add_66"]
    /\ UNCHANGED <<registry, allocator, file_info, locals, history,
                   replicated_part_names, args>>

\* line 66
addFileInfo_66(t) ==
    /\ pc[t] = "add_66"
    /\ file_names' = NamesEmplace(file_names, file_info[t].file_name,
                                  SizeAndChecksum(file_info[t]))
    /\ pc' = [pc EXCEPT ![t] = "add_67"]
    /\ UNCHANGED <<file_infos, allocator, mutex, file_info, locals, history,
                   replicated_part_names, args>>

\* Mutant of addFileInfo_67: no early return for an empty file.
addFileInfo_67_NoReturn(t) ==
    /\ pc[t] = "add_67"
    /\ pc' = [pc EXCEPT ![t] = "add_72"]
    /\ UNCHANGED <<registry, allocator, mutex, file_info, locals, history,
                   replicated_part_names, args>>

\* lines 67-71
addFileInfo_67(t) ==
    /\ pc[t] = "add_67"
    /\ IF file_info[t].size = 0
       THEN /\ is_data_file_required' = [is_data_file_required EXCEPT ![t] = FALSE]
            /\ pc' = [pc EXCEPT ![t] = "add_74"]
       ELSE /\ pc' = [pc EXCEPT ![t] = "add_72"]
            /\ UNCHANGED is_data_file_required
    /\ UNCHANGED <<registry, allocator, mutex, file_info, inserted_file_info,
                   new_archive_suffix, history, replicated_part_names, args>>

\* line 72, try_emplace's lookup: .second is whether the key was absent.
addFileInfo_72(t) ==
    /\ pc[t] = "add_72"
    /\ inserted_file_info' =
         [inserted_file_info EXCEPT
            ![t] = TryEmplaceInserts(file_infos, SizeAndChecksum(file_info[t]))]
    /\ pc' = [pc EXCEPT ![t] = "add_72_insert"]
    /\ UNCHANGED <<registry, allocator, mutex, file_info, is_data_file_required,
                   new_archive_suffix, history, replicated_part_names, args>>

\* line 72, try_emplace's insertion of the node when the key was absent.
addFileInfo_72_insert(t) ==
    /\ pc[t] = "add_72_insert"
    /\ file_infos' =
         IF inserted_file_info[t]
         THEN InsertNode(file_infos, SizeAndChecksum(file_info[t]), file_info[t])
         ELSE file_infos
    /\ pc' = [pc EXCEPT ![t] = "add_73"]
    /\ UNCHANGED <<file_names, allocator, mutex, file_info, locals, history,
                   replicated_part_names, args>>

\* Mutant of DataFileRequired: the result forgets whether the key was new.
DataFileRequired_SizeOnly(inserted, info) == info.size > info.base_size

\* The value line 73 assigns.
DataFileRequired(inserted, info) == inserted /\ (info.size > info.base_size)

\* line 73
addFileInfo_73(t) ==
    /\ pc[t] = "add_73"
    /\ is_data_file_required' =
         [is_data_file_required EXCEPT
            ![t] = DataFileRequired(inserted_file_info[t], file_info[t])]
    /\ pc' = [pc EXCEPT ![t] = "add_74"]
    /\ UNCHANGED <<registry, allocator, mutex, file_info, inserted_file_info,
                   new_archive_suffix, history, replicated_part_names, args>>

\* line 74 (and the return of line 70): the guard unlocks, the call returns.
addFileInfo_74(t) ==
    /\ pc[t] = "add_74"
    /\ UnlockGuard(t)
    /\ history' = Append(history, [op |-> "addFileInfo", arg |-> file_info[t],
                                   ret |-> is_data_file_required[t]])
    /\ pc' = [pc EXCEPT ![t] = "idle"]
    /\ file_info' = [file_info EXCEPT ![t] = DefaultFileInfo]
    /\ inserted_file_info' = [inserted_file_info EXCEPT ![t] = FALSE]
    /\ is_data_file_required' = [is_data_file_required EXCEPT ![t] = FALSE]
    /\ UNCHANGED <<registry, allocator, new_archive_suffix, replicated_part_names,
                   args>>

(***************************************************************************)
(* updateFileInfo, lines 76-84.                                            *)
(***************************************************************************)
\* A thread calls updateFileInfo(info).
updateFileInfo_call(t, info) ==
    /\ pc[t] = "idle"
    /\ pc' = [pc EXCEPT ![t] = "upd_78"]
    /\ file_info' = [file_info EXCEPT ![t] = info]
    /\ UNCHANGED <<registry, allocator, mutex, locals, history, replicated_part_names,
                   args>>

\* line 78: the size test, before the mutex is taken.
updateFileInfo_78(t) ==
    /\ pc[t] = "upd_78"
    /\ pc' = [pc EXCEPT ![t] = IF file_info[t].size = 0 THEN "upd_79" ELSE "upd_81"]
    /\ UNCHANGED <<registry, allocator, mutex, file_info, locals, history,
                   replicated_part_names, args>>

\* line 79: the return for an empty file; no mutex is held.
updateFileInfo_79(t) ==
    /\ pc[t] = "upd_79"
    /\ history' = Append(history, [op |-> "updateFileInfo", arg |-> file_info[t],
                                   ret |-> "returned"])
    /\ pc' = [pc EXCEPT ![t] = "idle"]
    /\ file_info' = [file_info EXCEPT ![t] = DefaultFileInfo]
    /\ UNCHANGED <<registry, allocator, mutex, locals, replicated_part_names, args>>

\* line 81
updateFileInfo_81(t) ==
    /\ pc[t] = "upd_81"
    /\ LockGuard(t)
    /\ pc' = [pc EXCEPT ![t] = "upd_82"]
    /\ UNCHANGED <<registry, allocator, file_info, locals, history,
                   replicated_part_names, args>>

\* Mutant of AssignArchiveSuffix: the suffix is assigned to every node.
AssignArchiveSuffix_EveryNode(infos, key, suffix) ==
    { [node EXCEPT !.second.archive_suffix = suffix] : node \in infos }

\* dest.archive_suffix = suffix, dest the value of the node of key.
AssignArchiveSuffix(infos, key, suffix) ==
    { IF node.first = key
      THEN [node EXCEPT !.second.archive_suffix = suffix]
      ELSE node : node \in infos }

\* Mutant of updateFileInfo_82: file_infos[key] in place of file_infos.at(key),
\* which makes the node of a key the map does not hold.
updateFileInfo_82_Subscript(t) ==
    /\ pc[t] = "upd_82"
    /\ file_infos' =
         AssignArchiveSuffix(
            IF Contains(file_infos, SizeAndChecksum(file_info[t])) THEN file_infos
            ELSE InsertNode(file_infos, SizeAndChecksum(file_info[t]), DefaultFileInfo),
            SizeAndChecksum(file_info[t]), file_info[t].archive_suffix)
    /\ pc' = [pc EXCEPT ![t] = "upd_84"]
    /\ UNCHANGED <<file_names, allocator, mutex, file_info, locals, history,
                   replicated_part_names, args>>

\* lines 82-83: at() throws std::out_of_range for a key the map does not hold.
updateFileInfo_82(t) ==
    /\ pc[t] = "upd_82"
    /\ IF Contains(file_infos, SizeAndChecksum(file_info[t]))
       THEN /\ file_infos' = AssignArchiveSuffix(file_infos, SizeAndChecksum(file_info[t]),
                                                 file_info[t].archive_suffix)
            /\ pc' = [pc EXCEPT ![t] = "upd_84"]
       ELSE /\ pc' = [pc EXCEPT ![t] = "upd_throw"]
            /\ UNCHANGED file_infos
    /\ UNCHANGED <<file_names, allocator, mutex, file_info, locals, history,
                   replicated_part_names, args>>

\* line 84: the guard unlocks, the call returns.
updateFileInfo_84(t) ==
    /\ pc[t] = "upd_84"
    /\ UnlockGuard(t)
    /\ history' = Append(history, [op |-> "updateFileInfo", arg |-> file_info[t],
                                   ret |-> "returned"])
    /\ pc' = [pc EXCEPT ![t] = "idle"]
    /\ file_info' = [file_info EXCEPT ![t] = DefaultFileInfo]
    /\ UNCHANGED <<registry, allocator, locals, replicated_part_names, args>>

\* The exception of line 82 leaves the function: the guard unlocks.
updateFileInfo_throw(t) ==
    /\ pc[t] = "upd_throw"
    /\ UnlockGuard(t)
    /\ history' = Append(history, [op |-> "updateFileInfo", arg |-> file_info[t],
                                   ret |-> "out_of_range"])
    /\ pc' = [pc EXCEPT ![t] = "idle"]
    /\ file_info' = [file_info EXCEPT ![t] = DefaultFileInfo]
    /\ UNCHANGED <<registry, allocator, locals, replicated_part_names, args>>

(***************************************************************************)
(* getNextArchiveSuffix, lines 156-162.                                    *)
(***************************************************************************)
\* The decimal digits of n, as character codes.
RECURSIVE Digits(_)
Digits(n) ==
    IF n < 10 THEN <<48 + n>>
    ELSE Append(Digits(n \div 10), 48 + (n % 10))

\* Mutant of Format03: a suffix of exactly 3 digits, wrapping past 999.
Format03_Wrap(n) ==
    <<48 + ((n \div 100) % 10), 48 + ((n \div 10) % 10), 48 + (n % 10)>>

\* fmt::format("{:03}", n): at least 3 digits, padded on the left with '0'.
Format03(n) ==
    LET d == Digits(n)
    IN  IF Len(d) >= 3 THEN d
        ELSE [i \in 1..(3 - Len(d)) |-> 48] \o d

\* A thread calls getNextArchiveSuffix().
getNextArchiveSuffix_call(t) ==
    /\ pc[t] = "idle"
    /\ pc' = [pc EXCEPT ![t] = "next_158"]
    /\ UNCHANGED <<registry, allocator, mutex, file_info, locals, history,
                   replicated_part_names, args>>

\* line 158
getNextArchiveSuffix_158(t) ==
    /\ pc[t] = "next_158"
    /\ LockGuard(t)
    /\ pc' = [pc EXCEPT ![t] = "next_159"]
    /\ UNCHANGED <<registry, allocator, file_info, locals, history,
                   replicated_part_names, args>>

\* line 159
getNextArchiveSuffix_159(t) ==
    /\ pc[t] = "next_159"
    /\ current_archive_suffix' = current_archive_suffix + 1
    /\ new_archive_suffix' =
         [new_archive_suffix EXCEPT ![t] = Format03(current_archive_suffix + 1)]
    /\ pc' = [pc EXCEPT ![t] = "next_160"]
    /\ UNCHANGED <<registry, archive_suffixes, mutex, file_info, inserted_file_info,
                   is_data_file_required, history, replicated_part_names, args>>

\* Mutant of getNextArchiveSuffix_160: the suffix is not logged.
getNextArchiveSuffix_160_NoLog(t) ==
    /\ pc[t] = "next_160"
    /\ pc' = [pc EXCEPT ![t] = "next_161"]
    /\ UNCHANGED <<registry, allocator, mutex, file_info, locals, history,
                   replicated_part_names, args>>

\* line 160
getNextArchiveSuffix_160(t) ==
    /\ pc[t] = "next_160"
    /\ archive_suffixes' = Append(archive_suffixes, new_archive_suffix[t])
    /\ pc' = [pc EXCEPT ![t] = "next_161"]
    /\ UNCHANGED <<registry, current_archive_suffix, mutex, file_info, locals, history,
                   replicated_part_names, args>>

\* lines 161-162: the guard unlocks, the call returns new_archive_suffix.
getNextArchiveSuffix_161(t) ==
    /\ pc[t] = "next_161"
    /\ UnlockGuard(t)
    /\ history' = Append(history, [op |-> "getNextArchiveSuffix", arg |-> DefaultFileInfo,
                                   ret |-> new_archive_suffix[t]])
    /\ pc' = [pc EXCEPT ![t] = "idle"]
    /\ new_archive_suffix' = [new_archive_suffix EXCEPT ![t] = EmptyString]
    /\ UNCHANGED <<registry, allocator, file_info, inserted_file_info,
                   is_data_file_required, replicated_part_names, args>>

(***************************************************************************)
(* The queries: const member functions, each one critical section that     *)
(* reads the maps and changes nothing.  The value a call returns is the    *)
(* operator of the same name, evaluated in the state the mutex is taken.   *)
(***************************************************************************)
\* Mutant of InfoOfName: line 96 (info.file_name = file_name) is left out.
InfoOfName_KeepName(infos, file_name, size_and_checksum) ==
    IF size_and_checksum[1] = 0
    THEN [threw |-> FALSE, info |-> DefaultFileInfo]
    ELSE IF Contains(infos, size_and_checksum)
    THEN [threw |-> FALSE, info |-> At(infos, size_and_checksum)]
    ELSE [threw |-> TRUE, info |-> DefaultFileInfo]

\* FileInfo info; if (size) info = file_infos.at(size_and_checksum);
\* info.file_name = file_name;            (lines 92-96 and 131-134)
\* threw: at() found no node and threw std::out_of_range.
InfoOfName(infos, file_name, size_and_checksum) ==
    IF size_and_checksum[1] = 0
    THEN [threw |-> FALSE, info |-> [DefaultFileInfo EXCEPT !.file_name = file_name]]
    ELSE IF Contains(infos, size_and_checksum)
    THEN [threw |-> FALSE,
          info |-> [At(infos, size_and_checksum) EXCEPT !.file_name = file_name]]
    ELSE [threw |-> TRUE, info |-> DefaultFileInfo]

\* The loop of lines 90-98 from the i-th name on; res is the vector so far.
RECURSIVE getAllFileInfos_loop(_, _, _, _, _)
getAllFileInfos_loop(names, infos, order, i, res) ==
    IF i > Len(order) THEN [threw |-> FALSE, res |-> res]
    ELSE LET r == InfoOfName(infos, order[i], names[order[i]])
         IN  IF r.threw THEN [threw |-> TRUE, res |-> <<>>]
             ELSE getAllFileInfos_loop(names, infos, order, i + 1, Append(res, r.info))

\* getAllFileInfos(), lines 86-100.
getAllFileInfos ==
    getAllFileInfos_loop(file_names, file_infos, SortedNames(DOMAIN file_names), 1, <<>>)

\* file_names.lower_bound(prefix): the first name not less than prefix, as an
\* index into the names in order (one past the end when there is none).
lower_bound(order, prefix) ==
    CHOOSE i \in 1..(Len(order) + 1) :
        /\ \A j \in 1..(i - 1) : StrLess(order[j], prefix)
        /\ i <= Len(order) => ~StrLess(order[i], prefix)

\* Lines 111-115: the element a name contributes.
new_element(name, prefix, terminator) ==
    LET start_pos == Len(prefix)
        end_pos == IF terminator # EmptyString
                   THEN find(name, terminator, start_pos)
                   ELSE NPos
    IN  substr(name, start_pos, end_pos - start_pos)

\* The loop of lines 106-119 from the i-th name on.
RECURSIVE listFiles_loop(_, _, _, _, _)
listFiles_loop(order, i, prefix, terminator, elements) ==
    IF i > Len(order) THEN elements
    ELSE IF ~starts_with(order[i], prefix) THEN elements
    ELSE LET e == new_element(order[i], prefix, terminator)
         IN  IF elements # <<>> /\ elements[Len(elements)] = e
             THEN listFiles_loop(order, i + 1, prefix, terminator, elements)
             ELSE listFiles_loop(order, i + 1, prefix, terminator, Append(elements, e))

\* listFiles(prefix, terminator), lines 102-121.
listFiles(prefix, terminator) ==
    LET order == SortedNames(DOMAIN file_names)
    IN  listFiles_loop(order, lower_bound(order, prefix), prefix, terminator, <<>>)

\* getFileInfo(const String & file_name), lines 123-136.
getFileInfoByName(file_name) ==
    IF file_name \notin DOMAIN file_names
    THEN [threw |-> FALSE, value |-> Nullopt]
    ELSE LET r == InfoOfName(file_infos, file_name, file_names[file_name])
         IN  IF r.threw THEN [threw |-> TRUE, value |-> Nullopt]
             ELSE [threw |-> FALSE, value |-> Some(r.info)]

\* getFileInfo(const SizeAndChecksum &), lines 138-145.
getFileInfoByKey(size_and_checksum) ==
    IF ~Contains(file_infos, size_and_checksum) THEN Nullopt
    ELSE Some(At(file_infos, size_and_checksum))

\* getFileSizeAndChecksum(file_name), lines 147-154.
getFileSizeAndChecksum(file_name) ==
    IF file_name \notin DOMAIN file_names THEN Nullopt
    ELSE Some(file_names[file_name])

\* getAllArchiveSuffixes(), lines 164-168.
getAllArchiveSuffixes == archive_suffixes

\* A thread runs one of the queries above from lock to unlock: it needs the
\* mutex free, observes that state, and leaves every variable as it was.
Query(t) ==
    /\ pc[t] = "idle"
    /\ mutex = Unlocked
    /\ UNCHANGED vars

(***************************************************************************)
(* BackupCoordinationReplicatedPartNames, the member replicated_part_names. *)
(* Its class is declared in BackupCoordinationHelpers.h; what its member   *)
(* functions do is taken from its contract: per host the claimed part      *)
(* names of a table in the order of the calls, the data paths, and after   *)
(* preparePartNames the host owning each part (the first one to claim it). *)
(***************************************************************************)
\* Host ids, the table, the part "p1" with its checksum and the paths.
HostIds == {<<104, 49>>, <<104, 50>>}
TableIds == {<<116>>}
PartNamesAndChecksums == { << [part_name |-> <<112, 49>>, checksum |-> 1] >> }
TableZkPaths == {<<122>>}
TableDataPaths == {<<100>>}
\* Error messages of finishPreparing: none, and "e".
ErrorMessages == {EmptyString, <<101>>}
\* The host lists and timeouts of waitForAllHostsPrepared.
HostLists == { << <<104, 49>> >>, << <<104, 49>>, <<104, 50>> >> }
Timeouts == {0, 1}

\* addPartNames(host, table, parts, path): appends the claim of the host.
addPartNames(tracker, host, table, parts, path) ==
    [tracker EXCEPT !.claims =
        Append(@, [host |-> host, table |-> table, parts |-> parts, path |-> path])]

\* has(host, table): the host has registered part names of the table.
has(tracker, host, table) ==
    \E i \in 1..Len(tracker.claims) :
        tracker.claims[i].host = host /\ tracker.claims[i].table = table

\* addDataPath(host, table, path): records the path of the host for the table.
addDataPath(tracker, host, table, path) ==
    [tracker EXCEPT !.data_paths =
        Append(@, [host |-> host, table |-> table, path |-> path])]

\* The claims (as indices) of a part of a table, in registration order.
ClaimsOfPart(tracker, table, part_name) ==
    { i \in 1..Len(tracker.claims) :
        /\ tracker.claims[i].table = table
        /\ \E k \in 1..Len(tracker.claims[i].parts) :
              tracker.claims[i].parts[k].part_name = part_name }

\* The checksum claim i gives for the part.
ChecksumOfPart(tracker, i, part_name) ==
    LET parts == tracker.claims[i].parts
    IN  parts[CHOOSE k \in 1..Len(parts) : parts[k].part_name = part_name].checksum

\* Two hosts claimed one part of one table with different checksums.
ChecksumMismatch(tracker) ==
    \E i, j \in 1..Len(tracker.claims) :
        /\ tracker.claims[i].host # tracker.claims[j].host
        /\ tracker.claims[i].table = tracker.claims[j].table
        /\ \E k \in 1..Len(tracker.claims[i].parts) :
              LET part_name == tracker.claims[i].parts[k].part_name
              IN  /\ j \in ClaimsOfPart(tracker, tracker.claims[j].table, part_name)
                  /\ ChecksumOfPart(tracker, j, part_name)
                        # tracker.claims[i].parts[k].checksum

\* The owner of every part seen: the host of the first claim of the part.
ResolveOwners(tracker) ==
    LET claims == tracker.claims
        First(i, k) ==
            \A j \in ClaimsOfPart(tracker, claims[i].table, claims[i].parts[k].part_name) :
                i <= j
    IN  UNION { { [table |-> claims[i].table,
                   part_name |-> claims[i].parts[k].part_name,
                   host |-> claims[i].host] :
                      k \in { k \in 1..Len(claims[i].parts) : First(i, k) } } :
                i \in 1..Len(claims) }

\* preparePartNames() starts: no registration is accepted from here on.
preparePartNames_begin(tracker) ==
    IF tracker.state = "Open" THEN [tracker EXCEPT !.state = "Finalizing"] ELSE tracker

\* preparePartNames() completes: the owners are resolved, unless two hosts
\* disagree on the checksum of a part (then it fails and assigns no owner).
preparePartNames_end(tracker) ==
    IF tracker.state # "Finalizing" THEN [threw |-> FALSE, tracker |-> tracker]
    ELSE IF ChecksumMismatch(tracker)
    THEN [threw |-> TRUE, tracker |-> [tracker EXCEPT !.state = "Open"]]
    ELSE [threw |-> FALSE,
          tracker |-> [tracker EXCEPT !.state = "Finalized",
                                      !.owners = ResolveOwners(tracker)]]

\* Whether a registration may be accepted / may fail as too late.  While
\* preparePartNames runs in another thread the two race: either may happen.
MayAccept(tracker) == tracker.state \in {"Open", "Finalizing"}
MayBeTooLate(tracker) == tracker.state \in {"Finalizing", "Finalized"}

\* The part names a host claimed for a table, in the order claimed.
RECURSIVE ClaimedPartNames(_, _, _, _)
ClaimedPartNames(claims, host, table, i) ==
    IF i > Len(claims) THEN <<>>
    ELSE IF claims[i].host = host /\ claims[i].table = table
    THEN [k \in 1..Len(claims[i].parts) |-> claims[i].parts[k].part_name]
         \o ClaimedPartNames(claims, host, table, i + 1)
    ELSE ClaimedPartNames(claims, host, table, i + 1)

\* seq without the elements that occurred before in it.
RECURSIVE Distinct(_)
Distinct(seq) ==
    IF seq = <<>> THEN <<>>
    ELSE LET front == Distinct(SubSeq(seq, 1, Len(seq) - 1))
         IN  IF \E i \in 1..Len(front) : front[i] = seq[Len(seq)] THEN front
             ELSE Append(front, seq[Len(seq)])

\* getPartNames(host, table): the part names of the table the host owns.
getPartNames(tracker, host, table) ==
    LET claimed == Distinct(ClaimedPartNames(tracker.claims, host, table, 1))
        Owned(part_name) ==
            [table |-> table, part_name |-> part_name, host |-> host] \in tracker.owners
    IN  SelectSeq(claimed, Owned)

\* getDataPaths(host, table): the data paths recorded by the host for the table.
getDataPaths(tracker, host, table) ==
    LET Mine(e) == e.host = host /\ e.table = table
        mine == SelectSeq(tracker.data_paths, Mine)
    IN  [i \in 1..Len(mine) |-> mine[i].path]

\* A call of the session returns: it joins the history, its arguments go.
Return(t, op, ret) ==
    /\ history' = Append(history, [op |-> op, arg |-> args[t], ret |-> ret])
    /\ pc' = [pc EXCEPT ![t] = "idle"]
    /\ args' = [args EXCEPT ![t] = NoArgs]

(***************************************************************************)
(* addReplicatedPartNames, lines 19-23.                                    *)
(***************************************************************************)
addReplicatedPartNames_call(t, host_id, table_id, parts, table_zk_path) ==
    /\ pc[t] = "idle"
    /\ pc' = [pc EXCEPT ![t] = "addpart_21"]
    /\ args' = [args EXCEPT ![t] =
                  [host_id |-> host_id, table_id |-> table_id,
                   part_names_and_checksums |-> parts, table_zk_path |-> table_zk_path]]
    /\ UNCHANGED <<registry, allocator, mutex, file_info, locals, history,
                   replicated_part_names>>

\* line 21
addReplicatedPartNames_21(t) ==
    /\ pc[t] = "addpart_21"
    /\ LockGuard(t)
    /\ pc' = [pc EXCEPT ![t] = "addpart_22"]
    /\ UNCHANGED <<registry, allocator, file_info, locals, history,
                   replicated_part_names, args>>

\* line 22: the host id passed to the tracker is "", whoever calls.
addReplicatedPartNames_22(t) ==
    /\ pc[t] = "addpart_22"
    /\ \/ /\ MayAccept(replicated_part_names)
          /\ replicated_part_names' =
                addPartNames(replicated_part_names, EmptyString, args[t].table_id,
                             args[t].part_names_and_checksums, args[t].table_zk_path)
          /\ pc' = [pc EXCEPT ![t] = "addpart_23"]
       \/ /\ MayBeTooLate(replicated_part_names)
          /\ pc' = [pc EXCEPT ![t] = "addpart_throw"]
          /\ UNCHANGED replicated_part_names
    /\ UNCHANGED <<registry, allocator, mutex, file_info, locals, history, args>>

\* line 23: the guard unlocks, the call returns.
addReplicatedPartNames_23(t) ==
    /\ pc[t] = "addpart_23"
    /\ UnlockGuard(t)
    /\ Return(t, "addReplicatedPartNames", "returned")
    /\ UNCHANGED <<registry, allocator, file_info, locals, replicated_part_names>>

\* The exception of line 22 leaves the function: the guard unlocks.
addReplicatedPartNames_throw(t) ==
    /\ pc[t] = "addpart_throw"
    /\ UnlockGuard(t)
    /\ Return(t, "addReplicatedPartNames", "too_late")
    /\ UNCHANGED <<registry, allocator, file_info, locals, replicated_part_names>>

(***************************************************************************)
(* hasReplicatedPartNames, lines 25-29.                                    *)
(***************************************************************************)
\* The value line 28 returns.
hasReplicatedPartNames(host_id, table_id) ==
    has(replicated_part_names, EmptyString, table_id)

hasReplicatedPartNames_call(t, host_id, table_id) ==
    /\ pc[t] = "idle"
    /\ pc' = [pc EXCEPT ![t] = "haspart_27"]
    /\ args' = [args EXCEPT ![t] = [host_id |-> host_id, table_id |-> table_id]]
    /\ UNCHANGED <<registry, allocator, mutex, file_info, locals, history,
                   replicated_part_names>>

\* line 27
hasReplicatedPartNames_27(t) ==
    /\ pc[t] = "haspart_27"
    /\ LockGuard(t)
    /\ pc' = [pc EXCEPT ![t] = "haspart_28"]
    /\ UNCHANGED <<registry, allocator, file_info, locals, history,
                   replicated_part_names, args>>

\* lines 28-29
hasReplicatedPartNames_28(t) ==
    /\ pc[t] = "haspart_28"
    /\ UnlockGuard(t)
    /\ Return(t, "hasReplicatedPartNames",
              hasReplicatedPartNames(args[t].host_id, args[t].table_id))
    /\ UNCHANGED <<registry, allocator, file_info, locals, replicated_part_names>>

(***************************************************************************)
(* addReplicatedTableDataPath, lines 31-35.                                *)
(***************************************************************************)
addReplicatedTableDataPath_call(t, host_id, table_id, table_data_path) ==
    /\ pc[t] = "idle"
    /\ pc' = [pc EXCEPT ![t] = "addpath_33"]
    /\ args' = [args EXCEPT ![t] =
                  [host_id |-> host_id, table_id |-> table_id,
                   table_data_path |-> table_data_path]]
    /\ UNCHANGED <<registry, allocator, mutex, file_info, locals, history,
                   replicated_part_names>>

\* line 33
addReplicatedTableDataPath_33(t) ==
    /\ pc[t] = "addpath_33"
    /\ LockGuard(t)
    /\ pc' = [pc EXCEPT ![t] = "addpath_34"]
    /\ UNCHANGED <<registry, allocator, file_info, locals, history,
                   replicated_part_names, args>>

\* line 34
addReplicatedTableDataPath_34(t) ==
    /\ pc[t] = "addpath_34"
    /\ \/ /\ MayAccept(replicated_part_names)
          /\ replicated_part_names' =
                addDataPath(replicated_part_names, EmptyString, args[t].table_id,
                            args[t].table_data_path)
          /\ pc' = [pc EXCEPT ![t] = "addpath_35"]
       \/ /\ MayBeTooLate(replicated_part_names)
          /\ pc' = [pc EXCEPT ![t] = "addpath_throw"]
          /\ UNCHANGED replicated_part_names
    /\ UNCHANGED <<registry, allocator, mutex, file_info, locals, history, args>>

\* line 35: the guard unlocks, the call returns.
addReplicatedTableDataPath_35(t) ==
    /\ pc[t] = "addpath_35"
    /\ UnlockGuard(t)
    /\ Return(t, "addReplicatedTableDataPath", "returned")
    /\ UNCHANGED <<registry, allocator, file_info, locals, replicated_part_names>>

\* The exception of line 34 leaves the function: the guard unlocks.
addReplicatedTableDataPath_throw(t) ==
    /\ pc[t] = "addpath_throw"
    /\ UnlockGuard(t)
    /\ Return(t, "addReplicatedTableDataPath", "too_late")
    /\ UNCHANGED <<registry, allocator, file_info, locals, replicated_part_names>>

(***************************************************************************)
(* finishPreparing, lines 37-44.  It takes no lock.                        *)
(***************************************************************************)
finishPreparing_call(t, host_id, error_message) ==
    /\ pc[t] = "idle"
    /\ pc' = [pc EXCEPT ![t] = "finish_39"]
    /\ args' = [args EXCEPT ![t] =
                  [host_id |-> host_id, error_message |-> error_message,
                   threw |-> FALSE]]
    /\ UNCHANGED <<registry, allocator, mutex, file_info, locals, history,
                   replicated_part_names>>

\* Mutant of finishPreparing_39: no return for a non-empty error message.
finishPreparing_39_NoReturn(t) ==
    /\ pc[t] = "finish_39"
    /\ pc' = [pc EXCEPT ![t] = "finish_43"]
    /\ UNCHANGED <<registry, allocator, mutex, file_info, locals, history,
                   replicated_part_names, args>>

\* lines 39-41: the message is logged; with an error the call returns.
finishPreparing_39(t) ==
    /\ pc[t] = "finish_39"
    /\ IF args[t].error_message # EmptyString
       THEN Return(t, "finishPreparing", "returned")
       ELSE /\ pc' = [pc EXCEPT ![t] = "finish_43"]
            /\ UNCHANGED <<history, args>>
    /\ UNCHANGED <<registry, allocator, mutex, file_info, locals, replicated_part_names>>

\* line 43: preparePartNames() is entered.
finishPreparing_43(t) ==
    /\ pc[t] = "finish_43"
    /\ replicated_part_names' = preparePartNames_begin(replicated_part_names)
    /\ pc' = [pc EXCEPT ![t] = "finish_43_end"]
    /\ UNCHANGED <<registry, allocator, mutex, file_info, locals, history, args>>

\* line 43: preparePartNames() completes.
finishPreparing_43_end(t) ==
    /\ pc[t] = "finish_43_end"
    /\ \A r \in {preparePartNames_end(replicated_part_names)} :
          /\ replicated_part_names' = r.tracker
          /\ args' = [args EXCEPT ![t].threw = r.threw]
    /\ pc' = [pc EXCEPT ![t] = "finish_44"]
    /\ UNCHANGED <<registry, allocator, mutex, file_info, locals, history>>

\* line 44: the call returns (or the exception of preparePartNames leaves it).
finishPreparing_44(t) ==
    /\ pc[t] = "finish_44"
    /\ Return(t, "finishPreparing",
              IF args[t].threw THEN "consistency_error" ELSE "returned")
    /\ UNCHANGED <<registry, allocator, mutex, file_info, locals, replicated_part_names>>

(***************************************************************************)
(* waitForAllHostsPrepared, lines 46-48: an empty body.                    *)
(***************************************************************************)
waitForAllHostsPrepared_call(t, host_ids, timeout) ==
    /\ pc[t] = "idle"
    /\ pc' = [pc EXCEPT ![t] = "wait_47"]
    /\ args' = [args EXCEPT ![t] = [host_ids |-> host_ids, timeout |-> timeout]]
    /\ UNCHANGED <<registry, allocator, mutex, file_info, locals, history,
                   replicated_part_names>>

\* A finishPreparing call with a non-empty error message has returned.
ErrorReported ==
    \E i \in 1..Len(history) :
        /\ history[i].op = "finishPreparing"
        /\ history[i].arg.error_message # EmptyString

\* Mutant of waitForAllHostsPrepared_47: a reported error is thrown to the waiter.
waitForAllHostsPrepared_47_Rethrow(t) ==
    /\ pc[t] = "wait_47"
    /\ Return(t, "waitForAllHostsPrepared",
              IF ErrorReported THEN "failed" ELSE "returned")
    /\ UNCHANGED <<registry, allocator, mutex, file_info, locals, replicated_part_names>>

\* Mutant of waitForAllHostsPrepared_47: the body runs under the mutex.
waitForAllHostsPrepared_47_Locked(t) ==
    /\ pc[t] = "wait_47"
    /\ mutex = Unlocked
    /\ Return(t, "waitForAllHostsPrepared", "returned")
    /\ UNCHANGED <<registry, allocator, mutex, file_info, locals, replicated_part_names>>

\* lines 47-48: the call returns.
waitForAllHostsPrepared_47(t) ==
    /\ pc[t] = "wait_47"
    /\ Return(t, "waitForAllHostsPrepared", "returned")
    /\ UNCHANGED <<registry, allocator, mutex, file_info, locals, replicated_part_names>>

\* Mutant of getReplicatedPartNames: the caller's host id is passed on.
getReplicatedPartNames_PassHost(host_id, table_id) ==
    getPartNames(replicated_part_names, host_id, table_id)

\* The value line 53 returns: the host id passed to the tracker is "".
getReplicatedPartNames(host_id, table_id) ==
    getPartNames(replicated_part_names, EmptyString, table_id)

\* The value line 59 returns.
getReplicatedTableDataPaths(host_id, table_id) ==
    getDataPaths(replicated_part_names, EmptyString, table_id)

(***************************************************************************)
(* getReplicatedPartNames, lines 50-54.                                    *)
(***************************************************************************)
getReplicatedPartNames_call(t, host_id, table_id) ==
    /\ pc[t] = "idle"
    /\ pc' = [pc EXCEPT ![t] = "getpart_52"]
    /\ args' = [args EXCEPT ![t] = [host_id |-> host_id, table_id |-> table_id]]
    /\ UNCHANGED <<registry, allocator, mutex, file_info, locals, history,
                   replicated_part_names>>

\* line 52
getReplicatedPartNames_52(t) ==
    /\ pc[t] = "getpart_52"
    /\ LockGuard(t)
    /\ pc' = [pc EXCEPT ![t] = "getpart_53"]
    /\ UNCHANGED <<registry, allocator, file_info, locals, history,
                   replicated_part_names, args>>

\* lines 53-54
getReplicatedPartNames_53(t) ==
    /\ pc[t] = "getpart_53"
    /\ UnlockGuard(t)
    /\ Return(t, "getReplicatedPartNames",
              getReplicatedPartNames(args[t].host_id, args[t].table_id))
    /\ UNCHANGED <<registry, allocator, file_info, locals, replicated_part_names>>

(***************************************************************************)
(* getReplicatedTableDataPaths, lines 56-60.                               *)
(***************************************************************************)
getReplicatedTableDataPaths_call(t, host_id, table_id) ==
    /\ pc[t] = "idle"
    /\ pc' = [pc EXCEPT ![t] = "getpath_58"]
    /\ args' = [args EXCEPT ![t] = [host_id |-> host_id, table_id |-> table_id]]
    /\ UNCHANGED <<registry, allocator, mutex, file_info, locals, history,
                   replicated_part_names>>

\* line 58
getReplicatedTableDataPaths_58(t) ==
    /\ pc[t] = "getpath_58"
    /\ LockGuard(t)
    /\ pc' = [pc EXCEPT ![t] = "getpath_59"]
    /\ UNCHANGED <<registry, allocator, file_info, locals, history,
                   replicated_part_names, args>>

\* lines 59-60
getReplicatedTableDataPaths_59(t) ==
    /\ pc[t] = "getpath_59"
    /\ UnlockGuard(t)
    /\ Return(t, "getReplicatedTableDataPaths",
              getReplicatedTableDataPaths(args[t].host_id, args[t].table_id))
    /\ UNCHANGED <<registry, allocator, file_info, locals, replicated_part_names>>

(***************************************************************************)
(* The queries as calls: lock, read, unlock and return.  The read is one   *)
(* step: the state cannot change while the guard owns the mutex.           *)
(***************************************************************************)
\* getFileInfo(name), lines 123-136.
getFileInfoByName_call(t, file_name) ==
    /\ pc[t] = "idle"
    /\ pc' = [pc EXCEPT ![t] = "info_125"]
    /\ args' = [args EXCEPT ![t] = [file_name |-> file_name]]
    /\ UNCHANGED <<registry, allocator, mutex, file_info, locals, history,
                   replicated_part_names>>

\* Mutant of getFileInfoByName_125: the read does not wait for the mutex.
getFileInfoByName_125_NoWait(t) ==
    /\ pc[t] = "info_125"
    /\ LockGuard_NoWait(t)
    /\ pc' = [pc EXCEPT ![t] = "info_126"]
    /\ UNCHANGED <<registry, allocator, file_info, locals, history,
                   replicated_part_names, args>>

\* line 125
getFileInfoByName_125(t) ==
    /\ pc[t] = "info_125"
    /\ LockGuard(t)
    /\ pc' = [pc EXCEPT ![t] = "info_126"]
    /\ UNCHANGED <<registry, allocator, file_info, locals, history,
                   replicated_part_names, args>>

\* lines 126-136: the read, the return, the guard unlocks.
getFileInfoByName_126(t) ==
    /\ pc[t] = "info_126"
    /\ UnlockGuard(t)
    /\ Return(t, "getFileInfo(name)", getFileInfoByName(args[t].file_name))
    /\ UNCHANGED <<registry, allocator, file_info, locals, replicated_part_names>>

\* getFileInfo(key), lines 138-145.
getFileInfoByKey_call(t, size_and_checksum) ==
    /\ pc[t] = "idle"
    /\ pc' = [pc EXCEPT ![t] = "infokey_140"]
    /\ args' = [args EXCEPT ![t] = [size_and_checksum |-> size_and_checksum]]
    /\ UNCHANGED <<registry, allocator, mutex, file_info, locals, history,
                   replicated_part_names>>

\* line 140
getFileInfoByKey_140(t) ==
    /\ pc[t] = "infokey_140"
    /\ LockGuard(t)
    /\ pc' = [pc EXCEPT ![t] = "infokey_141"]
    /\ UNCHANGED <<registry, allocator, file_info, locals, history,
                   replicated_part_names, args>>

\* lines 141-145: the read, the return, the guard unlocks.
getFileInfoByKey_141(t) ==
    /\ pc[t] = "infokey_141"
    /\ UnlockGuard(t)
    /\ Return(t, "getFileInfo(key)", getFileInfoByKey(args[t].size_and_checksum))
    /\ UNCHANGED <<registry, allocator, file_info, locals, replicated_part_names>>

\* getFileSizeAndChecksum, lines 147-154.
getFileSizeAndChecksum_call(t, file_name) ==
    /\ pc[t] = "idle"
    /\ pc' = [pc EXCEPT ![t] = "sizeof_149"]
    /\ args' = [args EXCEPT ![t] = [file_name |-> file_name]]
    /\ UNCHANGED <<registry, allocator, mutex, file_info, locals, history,
                   replicated_part_names>>

\* line 149
getFileSizeAndChecksum_149(t) ==
    /\ pc[t] = "sizeof_149"
    /\ LockGuard(t)
    /\ pc' = [pc EXCEPT ![t] = "sizeof_150"]
    /\ UNCHANGED <<registry, allocator, file_info, locals, history,
                   replicated_part_names, args>>

\* Mutant of getFileSizeAndChecksum_150: file_names[file_name] in place of
\* find, which makes the entry of a name the map does not hold.
getFileSizeAndChecksum_150_Subscript(t) ==
    /\ pc[t] = "sizeof_150"
    /\ UnlockGuard(t)
    /\ file_names' = NamesEmplace(file_names, args[t].file_name, <<0, 0>>)
    /\ Return(t, "getFileSizeAndChecksum", Some(file_names'[args[t].file_name]))
    /\ UNCHANGED <<file_infos, allocator, file_info, locals, replicated_part_names>>

\* lines 150-154: the read, the return, the guard unlocks.
getFileSizeAndChecksum_150(t) ==
    /\ pc[t] = "sizeof_150"
    /\ UnlockGuard(t)
    /\ Return(t, "getFileSizeAndChecksum", getFileSizeAndChecksum(args[t].file_name))
    /\ UNCHANGED <<registry, allocator, file_info, locals, replicated_part_names>>

\* getAllFileInfos, lines 86-100.
getAllFileInfos_call(t) ==
    /\ pc[t] = "idle"
    /\ pc' = [pc EXCEPT ![t] = "all_88"]
    /\ args' = [args EXCEPT ![t] = NoArgs]
    /\ UNCHANGED <<registry, allocator, mutex, file_info, locals, history,
                   replicated_part_names>>

\* line 88
getAllFileInfos_88(t) ==
    /\ pc[t] = "all_88"
    /\ LockGuard(t)
    /\ pc' = [pc EXCEPT ![t] = "all_89"]
    /\ UNCHANGED <<registry, allocator, file_info, locals, history,
                   replicated_part_names, args>>

\* lines 89-100: the read, the return, the guard unlocks.
getAllFileInfos_89(t) ==
    /\ pc[t] = "all_89"
    /\ UnlockGuard(t)
    /\ Return(t, "getAllFileInfos", getAllFileInfos)
    /\ UNCHANGED <<registry, allocator, file_info, locals, replicated_part_names>>

\* listFiles, lines 102-121.
listFiles_call(t, prefix, terminator) ==
    /\ pc[t] = "idle"
    /\ pc' = [pc EXCEPT ![t] = "list_104"]
    /\ args' = [args EXCEPT ![t] = [prefix |-> prefix, terminator |-> terminator]]
    /\ UNCHANGED <<registry, allocator, mutex, file_info, locals, history,
                   replicated_part_names>>

\* line 104
listFiles_104(t) ==
    /\ pc[t] = "list_104"
    /\ LockGuard(t)
    /\ pc' = [pc EXCEPT ![t] = "list_105"]
    /\ UNCHANGED <<registry, allocator, file_info, locals, history,
                   replicated_part_names, args>>

\* lines 105-121: the read, the return, the guard unlocks.
listFiles_105(t) ==
    /\ pc[t] = "list_105"
    /\ UnlockGuard(t)
    /\ Return(t, "listFiles", listFiles(args[t].prefix, args[t].terminator))
    /\ UNCHANGED <<registry, allocator, file_info, locals, replicated_part_names>>

\* getAllArchiveSuffixes, lines 164-168.
getAllArchiveSuffixes_call(t) ==
    /\ pc[t] = "idle"
    /\ pc' = [pc EXCEPT ![t] = "suffixes_166"]
    /\ args' = [args EXCEPT ![t] = NoArgs]
    /\ UNCHANGED <<registry, allocator, mutex, file_info, locals, history,
                   replicated_part_names>>

\* line 166
getAllArchiveSuffixes_166(t) ==
    /\ pc[t] = "suffixes_166"
    /\ LockGuard(t)
    /\ pc' = [pc EXCEPT ![t] = "suffixes_167"]
    /\ UNCHANGED <<registry, allocator, file_info, locals, history,
                   replicated_part_names, args>>

\* lines 167-168: the read, the return, the guard unlocks.
getAllArchiveSuffixes_167(t) ==
    /\ pc[t] = "suffixes_167"
    /\ UnlockGuard(t)
    /\ Return(t, "getAllArchiveSuffixes", getAllArchiveSuffixes)
    /\ UNCHANGED <<registry, allocator, file_info, locals, replicated_part_names>>

(***************************************************************************)
(* The specifications.                                                     *)
(***************************************************************************)
\* Fewer than max calls have been made so far.
Budget(max) == Len(history) + Cardinality(Running) < max

\* The records registered in Spec: files with content, and empty files (the
\* checksum of no bytes is one value, and nothing of them is in a base backup).
SpecInfos ==
    [file_name : Names, size : Sizes \ {0}, checksum : Checksums, base_size : BaseSizes,
     archive_suffix : {EmptyString}]
    \cup
    [file_name : Names, size : {0}, checksum : {1}, base_size : {0},
     archive_suffix : {EmptyString}]

\* The records updateFileInfo is called with in Spec: the suffix is "001".
UpdateInfos ==
    [file_name : {EmptyString}, size : Sizes \ {0}, checksum : Checksums, base_size : {0},
     archive_suffix : {Format03(1)}]
    \cup
    [file_name : {EmptyString}, size : {0}, checksum : {1}, base_size : {0},
     archive_suffix : {Format03(1)}]

\* The records registered in SpecList: the names differ, the content is one.
ListInfos ==
    [file_name : ListNames, size : {1}, checksum : {1}, base_size : {0},
     archive_suffix : {EmptyString}]

addFileInfo(t) ==
    \/ addFileInfo_65(t)
    \/ addFileInfo_66(t)
    \/ addFileInfo_67(t)
    \/ addFileInfo_72(t)
    \/ addFileInfo_72_insert(t)
    \/ addFileInfo_73(t)
    \/ addFileInfo_74(t)

updateFileInfo(t) ==
    \/ updateFileInfo_78(t)
    \/ updateFileInfo_79(t)
    \/ updateFileInfo_81(t)
    \/ updateFileInfo_82(t)
    \/ updateFileInfo_84(t)
    \/ updateFileInfo_throw(t)

getNextArchiveSuffix(t) ==
    \/ getNextArchiveSuffix_158(t)
    \/ getNextArchiveSuffix_159(t)
    \/ getNextArchiveSuffix_160(t)
    \/ getNextArchiveSuffix_161(t)

\* Spec: threads register and update files, draw archive suffixes and query.
Next ==
    \E t \in Threads :
        \/ Budget(MaxCalls) /\ \E info \in SpecInfos : addFileInfo_call(t, info)
        \/ Budget(MaxCalls) /\ \E info \in UpdateInfos : updateFileInfo_call(t, info)
        \/ Budget(MaxCalls) /\ getNextArchiveSuffix_call(t)
        \/ addFileInfo(t)
        \/ updateFileInfo(t)
        \/ getNextArchiveSuffix(t)
        \/ Query(t)

Spec == Init /\ [][Next]_vars

\* SpecList: threads register path-like names and list them.
NextList ==
    \E t \in Threads :
        \/ Budget(MaxCalls) /\ \E info \in ListInfos : addFileInfo_call(t, info)
        \/ addFileInfo(t)
        \/ Query(t)

SpecList == Init /\ [][NextList]_vars

\* SpecSuffix: threads draw archive suffixes until the width of the suffix grows.
NextSuffix ==
    \E t \in Threads :
        \/ Budget(MaxSuffixCalls) /\ getNextArchiveSuffix_call(t)
        \/ getNextArchiveSuffix(t)
        \/ Query(t)

SpecSuffix == Init /\ [][NextSuffix]_vars

addReplicatedPartNames(t) ==
    \/ addReplicatedPartNames_21(t)
    \/ addReplicatedPartNames_22(t)
    \/ addReplicatedPartNames_23(t)
    \/ addReplicatedPartNames_throw(t)

hasReplicatedPartNamesSteps(t) ==
    \/ hasReplicatedPartNames_27(t)
    \/ hasReplicatedPartNames_28(t)

addReplicatedTableDataPath(t) ==
    \/ addReplicatedTableDataPath_33(t)
    \/ addReplicatedTableDataPath_34(t)
    \/ addReplicatedTableDataPath_35(t)
    \/ addReplicatedTableDataPath_throw(t)

finishPreparing(t) ==
    \/ finishPreparing_39(t)
    \/ finishPreparing_43(t)
    \/ finishPreparing_43_end(t)
    \/ finishPreparing_44(t)

getReplicatedSteps(t) ==
    \/ getReplicatedPartNames_52(t)
    \/ getReplicatedPartNames_53(t)
    \/ getReplicatedTableDataPaths_58(t)
    \/ getReplicatedTableDataPaths_59(t)

\* SpecTracker: hosts register parts and data paths, report the prepare stage
\* and read the tracker.
NextTracker ==
    \E t \in Threads :
        \/ Budget(MaxCalls) /\
              \E host_id \in HostIds, table_id \in TableIds,
                 parts \in PartNamesAndChecksums, table_zk_path \in TableZkPaths :
                  addReplicatedPartNames_call(t, host_id, table_id, parts, table_zk_path)
        \/ Budget(MaxCalls) /\
              \E host_id \in HostIds, table_id \in TableIds :
                  \/ hasReplicatedPartNames_call(t, host_id, table_id)
                  \/ getReplicatedPartNames_call(t, host_id, table_id)
                  \/ getReplicatedTableDataPaths_call(t, host_id, table_id)
                  \/ \E table_data_path \in TableDataPaths :
                        addReplicatedTableDataPath_call(t, host_id, table_id,
                                                        table_data_path)
        \/ Budget(MaxCalls) /\
              \E host_id \in HostIds, error_message \in ErrorMessages :
                  finishPreparing_call(t, host_id, error_message)
        \/ addReplicatedPartNames(t)
        \/ hasReplicatedPartNamesSteps(t)
        \/ addReplicatedTableDataPath(t)
        \/ finishPreparing(t)
        \/ getReplicatedSteps(t)

SpecTracker == Init /\ [][NextTracker]_vars

\* The record registered in SpecWait.
WaitInfos ==
    [file_name : {<<97>>}, size : {1}, checksum : {1}, base_size : {0},
     archive_suffix : {EmptyString}]

\* SpecWait: hosts report the prepare stage and wait for each other while
\* the registry, the tracker and the allocator are in use.
NextWait ==
    \E t \in Threads :
        \/ Budget(MaxCalls) /\
              \E host_id \in HostIds, error_message \in ErrorMessages :
                  finishPreparing_call(t, host_id, error_message)
        \/ Budget(MaxCalls) /\
              \E host_ids \in HostLists, timeout \in Timeouts :
                  waitForAllHostsPrepared_call(t, host_ids, timeout)
        \/ Budget(MaxCalls) /\
              \E table_id \in TableIds, parts \in PartNamesAndChecksums,
                 table_zk_path \in TableZkPaths :
                  addReplicatedPartNames_call(t, EmptyString, table_id, parts,
                                              table_zk_path)
        \/ Budget(MaxCalls) /\ \E info \in WaitInfos : addFileInfo_call(t, info)
        \/ Budget(MaxCalls) /\ getNextArchiveSuffix_call(t)
        \/ finishPreparing(t)
        \/ waitForAllHostsPrepared_47(t)
        \/ addReplicatedPartNames(t)
        \/ addFileInfo(t)
        \/ getNextArchiveSuffix(t)

SpecWait == Init /\ [][NextWait]_vars

\* The records registered in SpecQuery: "a" and "b", empty or of one content.
QueryInfos ==
    [file_name : Names, size : Sizes, checksum : {1}, base_size : {0},
     archive_suffix : {EmptyString}]

\* The keys getFileInfo is asked for in SpecQuery.
QueryKeys == Sizes \X Checksums

getFileInfoSteps(t) ==
    \/ getFileInfoByName_125(t)
    \/ getFileInfoByName_126(t)
    \/ getFileInfoByKey_140(t)
    \/ getFileInfoByKey_141(t)
    \/ getFileSizeAndChecksum_149(t)
    \/ getFileSizeAndChecksum_150(t)

getAllSteps(t) ==
    \/ getAllFileInfos_88(t)
    \/ getAllFileInfos_89(t)
    \/ listFiles_104(t)
    \/ listFiles_105(t)
    \/ getAllArchiveSuffixes_166(t)
    \/ getAllArchiveSuffixes_167(t)

\* SpecQuery: threads register and update files while others query.
NextQuery ==
    \E t \in Threads :
        \/ Budget(MaxCalls) /\ \E info \in QueryInfos : addFileInfo_call(t, info)
        \/ Budget(MaxCalls) /\ \E info \in UpdateInfos : updateFileInfo_call(t, info)
        \/ Budget(MaxCalls) /\
              \E file_name \in Names :
                  \/ getFileInfoByName_call(t, file_name)
                  \/ getFileSizeAndChecksum_call(t, file_name)
        \/ Budget(MaxCalls) /\
              \E size_and_checksum \in QueryKeys :
                  getFileInfoByKey_call(t, size_and_checksum)
        \/ Budget(MaxCalls) /\ getAllFileInfos_call(t)
        \/ Budget(MaxCalls) /\ listFiles_call(t, EmptyString, EmptyString)
        \/ Budget(MaxCalls) /\ getAllArchiveSuffixes_call(t)
        \/ addFileInfo(t)
        \/ updateFileInfo(t)
        \/ getFileInfoSteps(t)
        \/ getAllSteps(t)

SpecQuery == Init /\ [][NextQuery]_vars

\* The records registered in SpecUpdate: two names, two keys, covered by the
\* base backup or not.
ChangeInfos ==
    [file_name : Names, size : Sizes \ {0}, checksum : Checksums, base_size : BaseSizes,
     archive_suffix : {EmptyString}]

\* The records updateFileInfo is called with in SpecUpdate: "001" and "002"
\* for the two keys, and an empty file.
ChangeUpdateInfos ==
    [file_name : {EmptyString}, size : Sizes \ {0}, checksum : Checksums, base_size : {0},
     archive_suffix : {Format03(1), Format03(2)}]
    \cup
    [file_name : {EmptyString}, size : {0}, checksum : {1}, base_size : {0},
     archive_suffix : {Format03(1)}]

\* SpecUpdate: threads register files and attach archive suffixes to them.
NextUpdate ==
    \E t \in Threads :
        \/ Budget(MaxCalls) /\ \E info \in ChangeInfos : addFileInfo_call(t, info)
        \/ Budget(MaxCalls) /\ \E info \in ChangeUpdateInfos : updateFileInfo_call(t, info)
        \/ addFileInfo(t)
        \/ updateFileInfo(t)

SpecUpdate == Init /\ [][NextUpdate]_vars

(***************************************************************************)
(* Notions the properties below are stated with.                           *)
(***************************************************************************)
Calls == 1..Len(history)
IsAdd(i) == history[i].op = "addFileInfo"
IsUpdate(i) == history[i].op = "updateFileInfo"
IsNext(i) == history[i].op = "getNextArchiveSuffix"
KeyOfCall(i) == SizeAndChecksum(history[i].arg)

\* An addFileInfo call that returned before call i registered the same key.
RegisteredEarlier(i) ==
    \E j \in 1..(i - 1) : IsAdd(j) /\ KeyOfCall(j) = KeyOfCall(i)

\* The keys of content: those of non-zero size.
ContentKeys == { k \in Sizes \X Checksums : k[1] # 0 }

\* The nodes of file_infos of a key.
NodesOf(key) == { node \in file_infos : node.first = key }

\* The program counters inside addFileInfo's critical section.
AddCritical == {"add_66", "add_67", "add_72", "add_72_insert", "add_73", "add_74"}

(***************************************************************************)
(* C1.  An addFileInfo call returns is_data_file_required = true exactly   *)
(* when no earlier addFileInfo call registered its (size, checksum) key    *)
(* and its size is greater than its base_size.  So once a key was first    *)
(* registered with size <= base_size, every later registration of the key  *)
(* returns false, whatever its base_size.                                  *)
(***************************************************************************)
C1_RequiredIffFirstAndUncovered ==
    \A i \in Calls :
        IsAdd(i) =>
            (history[i].ret <=>
                (/\ ~RegisteredEarlier(i)
                 /\ history[i].arg.size > history[i].arg.base_size))

\* A key first registered with size <= base_size, registered again with a
\* smaller base_size (false), and a call of another key that returned true.
C1_Witness ==
    \E i, j, k \in Calls :
        /\ i < j /\ IsAdd(i) /\ IsAdd(j) /\ IsAdd(k)
        /\ KeyOfCall(i) = KeyOfCall(j)
        /\ ~RegisteredEarlier(i)
        /\ history[i].arg.size # 0
        /\ history[i].arg.size <= history[i].arg.base_size
        /\ history[j].arg.base_size < history[j].arg.size
        /\ ~history[j].ret
        /\ history[k].ret

(***************************************************************************)
(* C2.  file_infos never holds two FileInfos of one (size, checksum) key,  *)
(* whatever addFileInfo and updateFileInfo calls were made, and an         *)
(* addFileInfo of a key registered before returns false, under the same    *)
(* file name or another.                                                   *)
(***************************************************************************)
C2_OneRecordPerKey ==
    /\ \A n1, n2 \in file_infos : n1.first = n2.first => n1 = n2
    /\ \A i \in Calls : IsAdd(i) /\ RegisteredEarlier(i) => ~history[i].ret

\* A key registered under two names and updated: one node holds it.
C2_Witness ==
    \E i, j, u \in Calls :
        /\ i < j /\ IsAdd(i) /\ IsAdd(j) /\ IsUpdate(u)
        /\ KeyOfCall(i) = KeyOfCall(j) /\ KeyOfCall(u) = KeyOfCall(i)
        /\ KeyOfCall(i)[1] # 0
        /\ history[i].arg.file_name # history[j].arg.file_name
        /\ history[u].ret = "returned"
        /\ Cardinality(NodesOf(KeyOfCall(i))) = 1

(***************************************************************************)
(* C3.  addFileInfo of a record of size 0 returns false, does not change   *)
(* file_infos and changes file_names by at most the entry of its own file  *)
(* name; no FileInfo of size 0 is ever in file_infos, and getFileInfo of a *)
(* key of size 0 is absent.                                                *)
(***************************************************************************)
C3_NoEmptyRecord ==
    /\ \A i \in Calls : IsAdd(i) /\ history[i].arg.size = 0 => ~history[i].ret
    /\ \A node \in file_infos : node.first[1] # 0 /\ node.second.size # 0
    /\ \A c \in Checksums : getFileInfoByKey(<<0, c>>) = Nullopt

\* What a step of an addFileInfo call of size 0 may change.
C3_EmptyStep ==
    \A t \in Threads :
        (pc[t] \in AddCritical /\ pc'[t] # pc[t] /\ file_info[t].size = 0) =>
            /\ file_infos' = file_infos
            /\ allocator' = allocator
            /\ DOMAIN file_names' \subseteq DOMAIN file_names \cup {file_info[t].file_name}
            /\ \A n \in DOMAIN file_names : file_names'[n] = file_names[n]
            /\ pc'[t] = "idle" =>
                  /\ file_info[t].file_name \in DOMAIN file_names'
                  /\ ~history'[Len(history')].ret

C3_EmptyFileNameOnly == []C3_NoEmptyRecord /\ [][C3_EmptyStep]_vars

\* An empty file was registered under a fresh name, beside a file with content.
C3_Witness ==
    \E i \in Calls :
        /\ IsAdd(i) /\ history[i].arg.size = 0 /\ ~history[i].ret
        /\ history[i].arg.file_name \in DOMAIN file_names
        /\ file_names[history[i].arg.file_name] = KeyOfCall(i)
        /\ file_infos # {}

(***************************************************************************)
(* C4.  Concurrent addFileInfo calls of one non-zero key: at most one      *)
(* thread is between lock and unlock; at most one of the calls returns     *)
(* true; one call inserts the FileInfo (one node per key, present once a   *)
(* call of the key returned, and a call that inserted is the first of its  *)
(* key); exactly one returns true when every call has size > base_size.    *)
(***************************************************************************)
AddsOf(key) == { i \in Calls : IsAdd(i) /\ KeyOfCall(i) = key }
TrueAddsOf(key) == { i \in AddsOf(key) : history[i].ret }

\* Threads whose running addFileInfo call of the key has inserted its node.
Inserters(key) ==
    { t \in Threads :
        /\ pc[t] \in {"add_73", "add_74"}
        /\ SizeAndChecksum(file_info[t]) = key
        /\ inserted_file_info[t] }

C4_FirstRegistrationAtomic ==
    /\ Cardinality(mutex) <= 1
    /\ \A t \in Threads : pc[t] \in AddCritical => t \in mutex
    /\ \A key \in ContentKeys :
        /\ Cardinality(TrueAddsOf(key)) <= 1
        /\ Cardinality(NodesOf(key)) <= 1
        /\ Cardinality(Inserters(key)) <= 1
        /\ Inserters(key) # {} => AddsOf(key) = {}
        /\ AddsOf(key) # {} => Cardinality(NodesOf(key)) = 1
        /\ (/\ AddsOf(key) # {}
            /\ \A i \in AddsOf(key) : history[i].arg.size > history[i].arg.base_size)
           => Cardinality(TrueAddsOf(key)) = 1

\* Two threads are in addFileInfo with the same key, both with size >
\* base_size: one holds the mutex and is about to return true, the other waits
\* at the lock.
C4_Witness ==
    \E t1, t2 \in Threads :
        /\ t1 # t2
        /\ pc[t1] = "add_74" /\ is_data_file_required[t1]
        /\ pc[t2] = "add_65"
        /\ SizeAndChecksum(file_info[t1]) = SizeAndChecksum(file_info[t2])
        /\ file_info[t2].size > file_info[t2].base_size

(***************************************************************************)
(* Archive suffixes as numbers.                                            *)
(***************************************************************************)
IsNextEntry(e) == e.op = "getNextArchiveSuffix"

\* The values getNextArchiveSuffix has returned so far, in the order returned.
ReturnedSuffixes ==
    LET calls == SelectSeq(history, IsNextEntry)
    IN  [i \in 1..Len(calls) |-> calls[i].ret]

IsDecimal(s) == s # <<>> /\ \A i \in 1..Len(s) : s[i] \in 48..57

\* The number a string of decimal digits denotes.
RECURSIVE ParseDecimal(_)
ParseDecimal(s) ==
    IF s = <<>> THEN 0
    ELSE 10 * ParseDecimal(SubSeq(s, 1, Len(s) - 1)) + (s[Len(s)] - 48)

\* The digits of n zero-padded to 3: 3 up to 999, then as many as n has.
PaddedWidth(n) == IF n < 1000 THEN 3 ELSE IF n < 10000 THEN 4 ELSE 5

NoRepeat(seq) == \A i, j \in 1..Len(seq) : seq[i] = seq[j] => i = j

(***************************************************************************)
(* C5.  The N-th getNextArchiveSuffix call to return, whichever thread     *)
(* made it, returns the number N in decimal, zero-padded to 3 digits and   *)
(* wider past 999: a value different from every value returned before and  *)
(* numerically greater than the one returned last, so N calls yield the N  *)
(* distinct, increasing suffixes "001", "002", ...                         *)
(***************************************************************************)
C5_ReturnStep ==
    \A t \in Threads :
        (pc[t] = "next_161" /\ pc'[t] = "idle") =>
            \A before \in {ReturnedSuffixes}, after \in {ReturnedSuffixes'} :
                \A n \in {Len(after)} :
                    /\ n = Len(before) + 1
                    /\ SubSeq(after, 1, n - 1) = before
                    /\ IsDecimal(after[n])
                    /\ ParseDecimal(after[n]) = n
                    /\ Len(after[n]) = PaddedWidth(n)
                    /\ \A i \in 1..Len(before) : before[i] # after[n]
                    /\ n > 1 => ParseDecimal(before[n - 1]) < ParseDecimal(after[n])

C5_SuffixesCountUp == [][C5_ReturnStep]_vars

\* 1000 calls have returned: "001" first, "999" and then "1000".
C5_Witness ==
    /\ Len(ReturnedSuffixes) >= 1000
    /\ ReturnedSuffixes[1] = <<48, 48, 49>>
    /\ ReturnedSuffixes[999] = <<57, 57, 57>>
    /\ ReturnedSuffixes[1000] = <<49, 48, 48, 48>>

(***************************************************************************)
(* C6.  Whenever no getNextArchiveSuffix call is between its increment and *)
(* its return, getAllArchiveSuffixes is the sequence of the values         *)
(* getNextArchiveSuffix has returned, in the order returned, without a     *)
(* repeat, and as long as the counter current_archive_suffix says: no      *)
(* other operation changes the log or the counter.                         *)
(***************************************************************************)
C6_LogIsCallHistory ==
    (\A t \in Threads : pc[t] \notin {"next_160", "next_161"}) =>
        /\ getAllArchiveSuffixes = ReturnedSuffixes
        /\ Len(getAllArchiveSuffixes) = current_archive_suffix
        /\ NoRepeat(getAllArchiveSuffixes)

\* Two suffixes were drawn with an addFileInfo call returning in between.
C6_Witness ==
    /\ \A t \in Threads : pc[t] = "idle"
    /\ Len(history) = 3 /\ IsNext(1) /\ IsAdd(2) /\ IsNext(3)
    /\ getAllArchiveSuffixes = <<Format03(1), Format03(2)>>
    /\ getAllArchiveSuffixes = <<history[1].ret, history[3].ret>>

(***************************************************************************)
(* What listFiles is to return, stated on the set of names.                *)
(***************************************************************************)
IsPrefixOf(p, n) == Len(p) <= Len(n) /\ \A i \in 1..Len(p) : n[i] = p[i]

\* a is before b in the lexicographic order of the bytes.
LexBefore(a, b) ==
    \E k \in 0..Min(Len(a), Len(b)) :
        /\ \A i \in 1..k : a[i] = b[i]
        /\ \/ k = Len(a) /\ k < Len(b)
           \/ k < Len(a) /\ k < Len(b) /\ a[k + 1] < b[k + 1]

\* The strings of S in lexicographic order.
InLexOrder(S) ==
    [i \in 1..Cardinality(S) |->
        CHOOSE x \in S : Cardinality({ y \in S : LexBefore(y, x) }) = i - 1]

\* The part of name between prefix and the first terminator after it: up to
\* the end when the terminator is empty or does not occur.
Segment(name, prefix, terminator) ==
    LET rest == [i \in 1..(Len(name) - Len(prefix)) |-> name[i + Len(prefix)]]
        occurs == { k \in 0..(Len(rest) - Len(terminator)) :
                      \A i \in 1..Len(terminator) : rest[k + i] = terminator[i] }
    IN  IF terminator = <<>> \/ occurs = {} THEN rest
        ELSE [i \in 1..(CHOOSE k \in occurs : \A q \in occurs : k <= q) |-> rest[i]]

\* seq without the elements equal to their predecessor.
RECURSIVE Collapse(_)
Collapse(seq) ==
    IF Len(seq) <= 1 THEN seq
    ELSE LET front == Collapse(SubSeq(seq, 1, Len(seq) - 1))
         IN  IF seq[Len(seq)] = seq[Len(seq) - 1] THEN front
             ELSE Append(front, seq[Len(seq)])

ExpectedList(prefix, terminator) ==
    LET matching == InLexOrder({ n \in DOMAIN file_names : IsPrefixOf(prefix, n) })
    IN  Collapse([i \in 1..Len(matching) |-> Segment(matching[i], prefix, terminator)])

(***************************************************************************)
(* C7.  listFiles returns distinct segments: for every set of registered   *)
(* names, prefix and terminator no segment is in the result twice.         *)
(* The code drops a segment only when it equals the last one kept, so      *)
(* over "a", "a-", "a/b" listFiles("", "/") is "a", "a-", "a".             *)
(***************************************************************************)
C7_ListFilesDistinct ==
    mutex = Unlocked =>
        \A prefix \in Prefixes, terminator \in Terminators :
            NoRepeat(listFiles(prefix, terminator))

(***************************************************************************)
(* C8.  listFiles(prefix, terminator) is: the registered names beginning   *)
(* with prefix, in lexicographic order, each replaced by its part between  *)
(* the prefix and the first terminator after it (up to the end of the name *)
(* for an empty or absent terminator), consecutive equal segments          *)
(* collapsed.  listFiles("a/", "/") over "a/b/c", "a/b/d", "a/e" is        *)
(* "b", "e".                                                               *)
(***************************************************************************)
C8_ListFilesIsSegmentsOfPrefix ==
    /\ \A prefix \in Prefixes, terminator \in Terminators :
          listFiles(prefix, terminator) = ExpectedList(prefix, terminator)
    /\ DOMAIN file_names = { <<97, 47, 98, 47, 99>>, <<97, 47, 98, 47, 100>>,
                             <<97, 47, 101>> }
         => listFiles(<<97, 47>>, <<47>>) = << <<98>>, <<101>> >>

\* "a/b/c", "a/b/d", "a/e" are registered: listFiles("a/", "/") is "b", "e".
C8_Witness ==
    /\ \A t \in Threads : pc[t] = "idle"
    /\ DOMAIN file_names = { <<97, 47, 98, 47, 99>>, <<97, 47, 98, 47, 100>>,
                             <<97, 47, 101>> }
    /\ listFiles(<<97, 47>>, <<47>>) = << <<98>>, <<101>> >>
    /\ listFiles(<<97, 47>>, <<>>) = << <<98, 47, 99>>, <<98, 47, 100>>, <<101>> >>

(***************************************************************************)
(* getAllFileInfos, as a lock-taking call observes it.                     *)
(***************************************************************************)
NamesOf(key) == { n \in DOMAIN file_names : file_names[n] = key }

\* The positions of the result whose entry has the key.
EntriesOf(res, key) == { i \in 1..Len(res) : SizeAndChecksum(res[i]) = key }

(***************************************************************************)
(* C9, as claimed.  getAllFileInfos holds every content record once: when  *)
(* k names are registered under one key, the list has one entry of that    *)
(* key, not k.                                                             *)
(***************************************************************************)
C9_OneEntryPerKey ==
    mutex = Unlocked =>
        \A key \in ContentKeys :
            NamesOf(key) # {} =>
                Cardinality(EntriesOf(getAllFileInfos.res, key)) = 1

(***************************************************************************)
(* C9, amended.  getAllFileInfos returns one entry per registered file     *)
(* name, in the order of the names; the entry carries that name and, for a *)
(* name of non-zero size, the other fields of the FileInfo of the key      *)
(* file_names holds for the name.  A key that k names map to has k         *)
(* entries, one under each of the names.                                   *)
(***************************************************************************)
C9_OneEntryPerName ==
    mutex = Unlocked =>
        \A r \in {getAllFileInfos} :
            /\ ~r.threw
            /\ Len(r.res) = Cardinality(DOMAIN file_names)
            /\ \A i, j \in 1..Len(r.res) :
                  i < j => LexBefore(r.res[i].file_name, r.res[j].file_name)
            /\ \A i \in 1..Len(r.res) :
                  /\ r.res[i].file_name \in DOMAIN file_names
                  /\ SizeAndChecksum(r.res[i])[1] # 0 =>
                        SizeAndChecksum(r.res[i]) = file_names[r.res[i].file_name]
                  /\ IF file_names[r.res[i].file_name][1] = 0
                     THEN r.res[i] = [DefaultFileInfo EXCEPT !.file_name = r.res[i].file_name]
                     ELSE \E node \in file_infos :
                            /\ node.first = file_names[r.res[i].file_name]
                            /\ r.res[i] =
                                 [node.second EXCEPT !.file_name = r.res[i].file_name]
            /\ \A key \in ContentKeys :
                  Cardinality(EntriesOf(r.res, key)) = Cardinality(NamesOf(key))

\* Two names are registered under one key, a third is an empty file: the
\* list has two entries of the key.
C9_Witness ==
    /\ mutex = Unlocked
    /\ \A t \in Threads : pc[t] = "idle"
    /\ \E key \in ContentKeys :
          /\ Cardinality(NamesOf(key)) = 2
          /\ Cardinality(EntriesOf(getAllFileInfos.res, key)) = 2
          /\ Cardinality(NodesOf(key)) = 1

(***************************************************************************)
(* C10.  When addFileInfo(record) has returned, file_names maps            *)
(* record.file_name to record's own key: getFileSizeAndChecksum of the     *)
(* name is (record.size, record.checksum) and getFileInfo of the name is   *)
(* the record of that key, also for a name registered before with another  *)
(* (size, checksum).                                                       *)
(* emplace keeps the older entry: after "a" with (1, 1), "a" with (1, 2)   *)
(* still maps to (1, 1).  Keys of size 0 are compared by size alone.       *)
(***************************************************************************)
\* Two keys are the same content: of a size-0 key the checksum is not used.
SameContent(k1, k2) == k1[1] = k2[1] /\ (k1[1] # 0 => k1[2] = k2[2])

C10_NameMapsToOwnKey ==
    (/\ history # <<>>
     /\ IsAdd(Len(history))
     /\ mutex = Unlocked) =>
        \A record \in {history[Len(history)].arg} :
            /\ getFileSizeAndChecksum(record.file_name) # Nullopt
            /\ \A key \in getFileSizeAndChecksum(record.file_name) :
                  SameContent(key, SizeAndChecksum(record))
            /\ ~getFileInfoByName(record.file_name).threw
            /\ getFileInfoByName(record.file_name).value # Nullopt
            /\ \A info \in getFileInfoByName(record.file_name).value :
                  /\ info.file_name = record.file_name
                  /\ record.size # 0 => SizeAndChecksum(info) = SizeAndChecksum(record)

(***************************************************************************)
(* C11.  After updateFileInfo has attached the archive suffix s to a       *)
(* registered key of non-zero size, and until a later updateFileInfo of    *)
(* the key, getFileInfo(key) is a record with archive_suffix = s, and so   *)
(* is getFileInfo(name) for every name registered under the key.           *)
(* A name registered before under another key (or as an empty file) keeps  *)
(* its older entry in file_names (C10), so getFileInfo(name) is the record *)
(* of the older key, without s.                                            *)
(***************************************************************************)
\* Call i is the last updateFileInfo of its key to have returned.
LastUpdateOfKey(i) ==
    /\ IsUpdate(i)
    /\ history[i].ret = "returned"
    /\ KeyOfCall(i)[1] # 0
    /\ \A j \in (i + 1)..Len(history) : IsUpdate(j) => KeyOfCall(j) # KeyOfCall(i)

\* The names addFileInfo calls that have returned registered under the key.
NamesRegisteredUnder(key) ==
    { history[j].arg.file_name : j \in { j \in Calls : IsAdd(j) /\ KeyOfCall(j) = key } }

C11_UpdateRoundTrip ==
    mutex = Unlocked =>
        \A i \in Calls :
            LastUpdateOfKey(i) =>
                /\ getFileInfoByKey(KeyOfCall(i)) # Nullopt
                /\ \A info \in getFileInfoByKey(KeyOfCall(i)) :
                      info.archive_suffix = history[i].arg.archive_suffix
                /\ \A name \in NamesRegisteredUnder(KeyOfCall(i)) :
                      /\ ~getFileInfoByName(name).threw
                      /\ getFileInfoByName(name).value # Nullopt
                      /\ \A info \in getFileInfoByName(name).value :
                            info.archive_suffix = history[i].arg.archive_suffix

(***************************************************************************)
(* C12.  updateFileInfo of a key of non-zero size that no addFileInfo call *)
(* registered fails with std::out_of_range and changes neither file_names  *)
(* nor file_infos (no node is made) nor the suffix log; updateFileInfo of  *)
(* a record of size 0 returns normally and changes nothing.                *)
(***************************************************************************)
UpdatePcs == {"upd_78", "upd_79", "upd_81", "upd_82", "upd_84", "upd_throw"}

\* How the updateFileInfo calls that have returned ended.
C12_UpdateOutcome ==
    \A i \in Calls :
        IsUpdate(i) =>
            IF history[i].arg.size = 0
            THEN history[i].ret = "returned"
            ELSE (history[i].ret = "out_of_range") <=> ~RegisteredEarlier(i)

\* What a step of an updateFileInfo call of size 0, or of a key file_infos
\* does not hold, may change.
C12_UpdateStep ==
    \A t \in Threads :
        (/\ pc[t] \in UpdatePcs
         /\ pc'[t] # pc[t]
         /\ \/ file_info[t].size = 0
            \/ ~Contains(file_infos, SizeAndChecksum(file_info[t]))) =>
            /\ registry' = registry
            /\ allocator' = allocator
            /\ pc'[t] = "idle" =>
                  history'[Len(history')].ret =
                     IF file_info[t].size = 0 THEN "returned" ELSE "out_of_range"

C12_UpdateOfUnregistered == []C12_UpdateOutcome /\ [][C12_UpdateStep]_vars

\* One key is registered; updateFileInfo of another key has failed and
\* updateFileInfo of an empty file has returned: one record, no suffix.
C12_Witness ==
    /\ \A t \in Threads : pc[t] = "idle"
    /\ \E i, j, k \in Calls :
          /\ IsAdd(k) /\ KeyOfCall(k)[1] # 0
          /\ IsUpdate(i) /\ KeyOfCall(i)[1] # 0 /\ KeyOfCall(i) # KeyOfCall(k)
          /\ history[i].ret = "out_of_range"
          /\ IsUpdate(j) /\ KeyOfCall(j)[1] = 0 /\ history[j].ret = "returned"
          /\ ~Contains(file_infos, KeyOfCall(i))
          /\ file_infos = {[first |-> KeyOfCall(k), second |-> history[k].arg]}
          /\ archive_suffixes = <<>>

(***************************************************************************)
(* The queries as calls of the history.                                    *)
(***************************************************************************)
QueryPcs ==
    {"info_125", "info_126", "infokey_140", "infokey_141", "sizeof_149", "sizeof_150",
     "all_88", "all_89", "list_104", "list_105", "suffixes_166", "suffixes_167"}

\* The program counters at which a query reads the maps.
ReadPcs == {"info_126", "infokey_141", "sizeof_150", "all_89", "list_105"}

\* An addFileInfo call that returned before call i had the name / the key.
NameAddedBefore(i, file_name) ==
    \E j \in 1..(i - 1) : IsAdd(j) /\ history[j].arg.file_name = file_name
KeyAddedBefore(i, key) ==
    \E j \in 1..(i - 1) : IsAdd(j) /\ KeyOfCall(j) = key /\ key[1] # 0

(***************************************************************************)
(* C13.  getFileInfo(name), getFileInfo(key) and getFileSizeAndChecksum of *)
(* a name or key no addFileInfo call registered return std::nullopt and    *)
(* throw nothing (and return a value for a registered one), and no step of *)
(* a query (these, listFiles, getAllFileInfos, getAllArchiveSuffixes)      *)
(* changes file_names, file_infos, the allocator or the tracker.           *)
(***************************************************************************)
C13_AbsentOutcome ==
    \A i \in Calls :
        /\ history[i].op = "getFileInfo(name)" =>
              /\ ~NameAddedBefore(i, history[i].arg.file_name) =>
                    history[i].ret = [threw |-> FALSE, value |-> Nullopt]
              /\ NameAddedBefore(i, history[i].arg.file_name) =>
                    history[i].ret.value # Nullopt
        /\ history[i].op = "getFileInfo(key)" =>
              (history[i].ret = Nullopt
                  <=> ~KeyAddedBefore(i, history[i].arg.size_and_checksum))
        /\ history[i].op = "getFileSizeAndChecksum" =>
              (history[i].ret = Nullopt
                  <=> ~NameAddedBefore(i, history[i].arg.file_name))

C13_QueryStep ==
    \A t \in Threads :
        (pc[t] \in QueryPcs /\ pc'[t] # pc[t]) =>
            /\ registry' = registry
            /\ allocator' = allocator
            /\ replicated_part_names' = replicated_part_names

C13_AbsentIsNoError == []C13_AbsentOutcome /\ [][C13_QueryStep]_vars

\* "a" is registered with content; getFileInfo("b") and getFileInfo of another
\* key have returned nullopt, and the maps hold what the registration made.
C13_Witness ==
    \E i, j, k \in Calls :
        /\ IsAdd(i) /\ KeyOfCall(i)[1] # 0 /\ i < j /\ i < k
        /\ history[j].op = "getFileInfo(name)"
        /\ history[j].arg.file_name # history[i].arg.file_name
        /\ history[j].ret = [threw |-> FALSE, value |-> Nullopt]
        /\ history[k].op = "getFileInfo(key)"
        /\ history[k].arg.size_and_checksum[1] # 0
        /\ history[k].arg.size_and_checksum # KeyOfCall(i)
        /\ history[k].ret = Nullopt
        /\ DOMAIN file_names = {history[i].arg.file_name}
        /\ file_infos = {[first |-> KeyOfCall(i), second |-> history[i].arg]}

(***************************************************************************)
(* The prepare stage in the history.                                       *)
(***************************************************************************)
IsWait(i) == history[i].op = "waitForAllHostsPrepared"
IsFinish(i) == history[i].op = "finishPreparing"

\* The hosts of a host list.
HostsOf(host_ids) == { host_ids[k] : k \in 1..Len(host_ids) }

\* Before call i returned, a host of the list reported the prepare stage
\* with a non-empty error message.
FailureReportedBefore(i, host_ids) ==
    \E j \in 1..(i - 1) :
        /\ IsFinish(j)
        /\ history[j].arg.error_message # EmptyString
        /\ history[j].arg.host_id \in HostsOf(host_ids)

(***************************************************************************)
(* C14, as claimed.  waitForAllHostsPrepared for two expected hosts, one   *)
(* of which has reported the prepare stage with a non-empty error message, *)
(* returns with a failure for every waiter, not normally.                  *)
(***************************************************************************)
C14_FailureSurfaced ==
    \A i \in Calls :
        (/\ IsWait(i)
         /\ Len(history[i].arg.host_ids) = 2
         /\ FailureReportedBefore(i, history[i].arg.host_ids)) =>
            history[i].ret # "returned"

(***************************************************************************)
(* C14, amended.  waitForAllHostsPrepared returns normally for every       *)
(* waiter, also when one of its two expected hosts has reported the        *)
(* prepare stage with a non-empty error message: finishPreparing logs the  *)
(* message and keeps nothing of it, so nothing is surfaced to a waiter.    *)
(***************************************************************************)
C14_WaitReturnsNormally ==
    /\ \A i \in Calls : IsWait(i) => history[i].ret = "returned"
    /\ \A i \in Calls :
          IsFinish(i) /\ history[i].arg.error_message # EmptyString =>
              history[i].ret = "returned"

\* A host has reported an error; two waiters for that host and another have
\* returned after it, both normally.
C14_Witness ==
    \E i, j \in Calls :
        /\ i < j /\ IsWait(i) /\ IsWait(j)
        /\ Len(history[i].arg.host_ids) = 2 /\ Len(history[j].arg.host_ids) = 2
        /\ FailureReportedBefore(i, history[i].arg.host_ids)
        /\ FailureReportedBefore(j, history[j].arg.host_ids)
        /\ history[i].ret = "returned" /\ history[j].ret = "returned"

(***************************************************************************)
(* C15.  waitForAllHostsPrepared returns at once, in every state and for   *)
(* every host list and timeout: a thread inside it never owns the mutex,   *)
(* its return is possible whoever owns the mutex, and its steps change     *)
(* neither the mutex nor the registry, the tracker or the allocator, so it *)
(* neither waits for a concurrent operation nor makes one wait.            *)
(***************************************************************************)
C15_NeverBlocked ==
    \A t \in Threads :
        pc[t] = "wait_47" =>
            /\ t \notin mutex
            /\ ENABLED waitForAllHostsPrepared_47(t)

C15_WaitStep ==
    \A t \in Threads :
        (pc[t] # pc'[t] /\ (pc[t] = "wait_47" \/ pc'[t] = "wait_47")) =>
            /\ mutex' = mutex
            /\ registry' = registry
            /\ allocator' = allocator
            /\ replicated_part_names' = replicated_part_names
            /\ \A u \in Threads \ {t} : pc'[u] = pc[u]
            /\ pc[t] = "wait_47" =>
                  /\ pc'[t] = "idle"
                  /\ history'[Len(history')].ret = "returned"

C15_WaitReturnsImmediately == []C15_NeverBlocked /\ [][C15_WaitStep]_vars

\* A thread is inside waitForAllHostsPrepared for two hosts while another
\* thread owns the mutex, in the middle of a registration: it can return.
C15_Witness ==
    \E t, u \in Threads :
        /\ t # u
        /\ pc[t] = "wait_47"
        /\ Len(args[t].host_ids) = 2
        /\ mutex = {u}
        /\ pc[u] \in {"add_72_insert", "addpart_22", "next_160"}
        /\ ENABLED waitForAllHostsPrepared_47(t)

(***************************************************************************)
(* The tracker calls in the history.                                       *)
(***************************************************************************)
IsAddParts(i) == history[i].op = "addReplicatedPartNames"

\* The part "p1".
PartP1 == <<112, 49>>

Includes(seq, x) == \E k \in 1..Len(seq) : seq[k] = x

\* Call i registered part "p1" of the table for the host and was accepted.
RegisteredP1(i, host_id, table_id) ==
    /\ IsAddParts(i)
    /\ history[i].ret = "returned"
    /\ history[i].arg.host_id = host_id
    /\ history[i].arg.table_id = table_id
    /\ \E k \in 1..Len(history[i].arg.part_names_and_checksums) :
          history[i].arg.part_names_and_checksums[k].part_name = PartP1

\* Call k reported the prepare stage without error and finalization is over.
Finalized(k) ==
    /\ IsFinish(k)
    /\ history[k].arg.error_message = EmptyString
    /\ history[k].ret = "returned"
    /\ replicated_part_names.state = "Finalized"

\* Two hosts registered "p1" of the table and finalization followed.
BothRegisteredThenFinalized(h1, h2, table_id) ==
    /\ h1 # h2
    /\ mutex = Unlocked
    /\ \E i, j, k \in Calls :
          /\ i < k /\ j < k
          /\ RegisteredP1(i, h1, table_id)
          /\ RegisteredP1(j, h2, table_id)
          /\ Finalized(k)

(***************************************************************************)
(* C16, as claimed.  After two hosts with different host ids registered    *)
(* part "p1" of one table with matching checksums and finalization ran,    *)
(* getReplicatedPartNames includes "p1" for exactly one of the two hosts.  *)
(***************************************************************************)
C16_ExactlyOneHostOwns ==
    \A h1, h2 \in HostIds, table_id \in TableIds :
        BothRegisteredThenFinalized(h1, h2, table_id) =>
            (Includes(getReplicatedPartNames(h1, table_id), PartP1)
                # Includes(getReplicatedPartNames(h2, table_id), PartP1))

(***************************************************************************)
(* C16, amended.  After two hosts with different host ids registered part  *)
(* "p1" of one table with matching checksums and finalization ran,         *)
(* getReplicatedPartNames includes "p1" for both hosts: the session passes *)
(* the host id "" to the tracker in every call, so all registrations are   *)
(* those of one host and the result is the same for every querying host.   *)
(***************************************************************************)
C16_SameForEveryHost ==
    \A h1, h2 \in HostIds, table_id \in TableIds :
        BothRegisteredThenFinalized(h1, h2, table_id) =>
            /\ Includes(getReplicatedPartNames(h1, table_id), PartP1)
            /\ Includes(getReplicatedPartNames(h2, table_id), PartP1)
            /\ getReplicatedPartNames(h1, table_id) = getReplicatedPartNames(h2, table_id)
            /\ \A claim \in { replicated_part_names.claims[c] :
                                 c \in 1..Len(replicated_part_names.claims) } :
                  claim.host = EmptyString

\* "h1" and "h2" have registered "p1", finishPreparing has finalized: the
\* list of both is "p1".
C16_Witness ==
    \E h1, h2 \in HostIds, table_id \in TableIds :
        /\ BothRegisteredThenFinalized(h1, h2, table_id)
        /\ \A t \in Threads : pc[t] = "idle"
        /\ getReplicatedPartNames(h1, table_id) = <<PartP1>>
        /\ getReplicatedPartNames(h2, table_id) = <<PartP1>>

(***************************************************************************)
(* C17.  finishPreparing runs preparePartNames exactly when its error      *)
(* message is empty: a call with an empty message has finalized the        *)
(* tracker when it returns, the tracker leaves the state Open only through *)
(* such a call, and every step of a call with a non-empty message leaves   *)
(* the tracker, file_names, file_infos, the allocator and the mutex        *)
(* unchanged and returns.                                                  *)
(***************************************************************************)
FinishPcs == {"finish_39", "finish_43", "finish_43_end", "finish_44"}

\* A finishPreparing call with an empty error message has reached line 43.
FinalizationRun ==
    \/ \E i \in Calls : IsFinish(i) /\ history[i].arg.error_message = EmptyString
    \/ \E t \in Threads :
          pc[t] \in {"finish_43_end", "finish_44"} /\ args[t].error_message = EmptyString

C17_FinalizedIffNoError ==
    /\ \A i \in Calls :
          IsFinish(i) /\ history[i].arg.error_message = EmptyString =>
              /\ history[i].ret = "returned"
              /\ replicated_part_names.state = "Finalized"
    /\ replicated_part_names.state # "Open" => FinalizationRun
    /\ \A t \in Threads :
          pc[t] \in {"finish_43", "finish_43_end", "finish_44"} =>
              args[t].error_message = EmptyString

C17_ErrorStep ==
    \A t \in Threads :
        (/\ pc[t] \in FinishPcs
         /\ pc'[t] # pc[t]
         /\ args[t].error_message # EmptyString) =>
            /\ replicated_part_names' = replicated_part_names
            /\ registry' = registry
            /\ allocator' = allocator
            /\ mutex' = mutex
            /\ pc'[t] = "idle"

C17_FinalizeOnlyWithoutError == []C17_FinalizedIffNoError /\ [][C17_ErrorStep]_vars

\* Parts are registered; a finishPreparing call with an error has returned
\* and the tracker is still open, with no owner.
C17_Witness ==
    \E i, j \in Calls :
        /\ i < j
        /\ RegisteredP1(i, history[i].arg.host_id, history[i].arg.table_id)
        /\ IsFinish(j) /\ history[j].arg.error_message # EmptyString
        /\ \A k \in Calls : ~IsFinish(k) \/ k = j
        /\ replicated_part_names.state = "Open"
        /\ replicated_part_names.owners = {}
        /\ \A t \in Threads : pc[t] = "idle"

(***************************************************************************)
(* C18.  Every tracker call is serialized under the mutex: finalization    *)
(* (preparePartNames, run by finishPreparing) never runs while another     *)
(* thread is inside addReplicatedPartNames, addReplicatedTableDataPath or  *)
(* a tracker read, and the thread running it owns the mutex.               *)
(* finishPreparing takes no lock: preparePartNames runs while another      *)
(* thread, owning the mutex, is inside its tracker call.                   *)
(***************************************************************************)
\* The program counters at which a thread, owning the mutex, is inside a
\* call of the tracker.
TrackerCritical == {"addpart_22", "haspart_28", "addpath_34", "getpart_53", "getpath_59"}

C18_TrackerSerialized ==
    \A t, u \in Threads :
        (t # u /\ pc[t] = "finish_43_end") => pc[u] \notin TrackerCritical

(***************************************************************************)
(* C19.  A FileInfo of file_infos and an entry of file_names are never     *)
(* removed or replaced: from one state to the next every node is still     *)
(* there with its file_name, size, checksum and base_size (those of the    *)
(* first addFileInfo call of its key), its archive_suffix changes only by  *)
(* updateFileInfo of its key, to the suffix given, and every entry of      *)
(* file_names stays as it is; the steps of updateFileInfo make no node and *)
(* leave the other nodes, file_names and the suffix log unchanged.         *)
(***************************************************************************)
\* The first addFileInfo call of the key to have returned.
FirstAddOf(key) ==
    CHOOSE i \in AddsOf(key) : \A j \in AddsOf(key) : i <= j

KeysOf(infos) == { node.first : node \in infos }

C19_RecordOfFirstRegistration ==
    mutex = Unlocked =>
        \A node \in file_infos :
            /\ AddsOf(node.first) # {}
            /\ [node.second EXCEPT !.archive_suffix = EmptyString]
                  = history[FirstAddOf(node.first)].arg

C19_KeepStep ==
    /\ \A node \in file_infos :
          \E next \in file_infos' :
              /\ next.first = node.first
              /\ next.second =
                    [node.second EXCEPT !.archive_suffix = next.second.archive_suffix]
              /\ next # node =>
                    \E t \in Threads :
                        /\ pc[t] = "upd_82" /\ pc'[t] = "upd_84"
                        /\ SizeAndChecksum(file_info[t]) = node.first
                        /\ next.second.archive_suffix = file_info[t].archive_suffix
    /\ \A name \in DOMAIN file_names :
          name \in DOMAIN file_names' /\ file_names'[name] = file_names[name]
    /\ \A t \in Threads :
          (pc[t] \in UpdatePcs /\ pc'[t] # pc[t]) =>
              /\ file_names' = file_names
              /\ allocator' = allocator
              /\ KeysOf(file_infos') = KeysOf(file_infos)
              /\ Cardinality(file_infos') = Cardinality(file_infos)
              /\ \A node \in file_infos :
                    node.first # SizeAndChecksum(file_info[t]) => node \in file_infos'

C19_RecordsOnlyGainSuffix == []C19_RecordOfFirstRegistration /\ [][C19_KeepStep]_vars

\* Two keys are registered, one with a base_size; updateFileInfo has attached
\* a suffix to that one: it is the record of its registration but for the
\* suffix, the other record is as registered.
C19_Witness ==
    /\ \A t \in Threads : pc[t] = "idle"
    /\ \E i, j, u \in Calls :
          /\ IsAdd(i) /\ IsAdd(j) /\ IsUpdate(u)
          /\ KeyOfCall(i) # KeyOfCall(j)
          /\ KeyOfCall(u) = KeyOfCall(i)
          /\ history[u].ret = "returned"
          /\ history[i].arg.base_size # history[u].arg.base_size
          /\ file_infos =
                { [first |-> KeyOfCall(i),
                   second |-> [history[i].arg EXCEPT
                                  !.archive_suffix = history[u].arg.archive_suffix]],
                  [first |-> KeyOfCall(j), second |-> history[j].arg] }

(***************************************************************************)
(* C20.  In every state a thread can observe (the mutex is free, or a      *)
(* query owns it and reads), every name of file_names with a non-zero size *)
(* has the node of its key in file_infos; so no getFileInfo(name) and no   *)
(* getAllFileInfos call has thrown, under any interleaving with            *)
(* addFileInfo and updateFileInfo, and no reader sees a name without its   *)
(* record.                                                                 *)
(***************************************************************************)
\* Every name of non-zero size has its record.
NamesHaveRecords ==
    \A name \in DOMAIN file_names :
        file_names[name][1] # 0 => Contains(file_infos, file_names[name])

C20_ReadersSeeNameWithRecord ==
    /\ (mutex = Unlocked \/ \E t \in Threads : pc[t] \in ReadPcs) =>
          /\ NamesHaveRecords
          /\ ~getAllFileInfos.threw
          /\ \A name \in DOMAIN file_names : ~getFileInfoByName(name).threw
    /\ \A i \in Calls :
          history[i].op \in {"getFileInfo(name)", "getAllFileInfos"} =>
              ~history[i].ret.threw

\* addFileInfo has inserted the name and not yet the record; a getFileInfo
\* call of that name waits for the mutex.
C20_Witness ==
    \E t, u \in Threads :
        /\ pc[t] = "add_72"
        /\ mutex = {t}
        /\ file_info[t].file_name \in DOMAIN file_names
        /\ file_names[file_info[t].file_name] = SizeAndChecksum(file_info[t])
        /\ ~Contains(file_infos, SizeAndChecksum(file_info[t]))
        /\ pc[u] = "info_125"
        /\ args[u].file_name = file_info[t].file_name

====
